---------------------------- MODULE Spec2Model ----------------------------
(***************************************************************************)
(* Model of the voice assistant's question-answering core:                 *)
(* QAProcessor (src/voice_qa/qa_processor.py) with the LeetCode Data       *)
(* Client (src/leetcode_api_client.py) and the reasoning service as its    *)
(* environment.  Text is modelled by TLA+ strings, handled character by    *)
(* character with Len and SubSeq.                                          *)
(***************************************************************************)
EXTENDS Integers, Sequences, FiniteSets, TLC

(***************************************************************************)
(* Bounds of the model.                                                    *)
(***************************************************************************)
\* Longest list of tool calls a decide response carries.
MaxCalls == 2

(***************************************************************************)
(* Text helpers: str.strip(), str.lower(), the `in` substring test.        *)
(***************************************************************************)
Char(s, i) == SubSeq(s, i, i)

\* The control characters for which str.isspace() holds and that have no
\* escape in a string: vertical tab (0x0b) and the file, group, record and
\* unit separators (0x1c to 0x1f).
VT == ""
FS == ""
GS == ""
RS == ""
US == ""

\* The characters str.strip() removes: those for which str.isspace() holds
\* (the ASCII ones; the strings of the model hold no others).
Whitespace == {" ", "\t", "\n", "\r", "\f", VT, FS, GS, RS, US}

\* Index of the first non-whitespace character of s, Len(s) + 1 if none.
RECURSIVE FirstNonSpace(_, _)
FirstNonSpace(s, i) ==
    IF i > Len(s) THEN i
    ELSE IF Char(s, i) \in Whitespace THEN FirstNonSpace(s, i + 1) ELSE i

\* Index of the last non-whitespace character of s, 0 if none.
RECURSIVE LastNonSpace(_, _)
LastNonSpace(s, i) ==
    IF i < 1 THEN 0
    ELSE IF Char(s, i) \in Whitespace THEN LastNonSpace(s, i - 1) ELSE i

\* A strip that is forgotten.
NoStrip(s) == s

\* A strip that forgets the trailing whitespace.
StripLeftOnly(s) == SubSeq(s, FirstNonSpace(s, 1), Len(s))

\* str.strip()
Strip(s) == SubSeq(s, FirstNonSpace(s, 1), LastNonSpace(s, Len(s)))

UpperCase == <<"A", "B", "C", "D", "E", "F", "G", "H", "I", "J", "K", "L", "M",
               "N", "O", "P", "Q", "R", "S", "T", "U", "V", "W", "X", "Y", "Z">>
LowerCase == <<"a", "b", "c", "d", "e", "f", "g", "h", "i", "j", "k", "l", "m",
               "n", "o", "p", "q", "r", "s", "t", "u", "v", "w", "x", "y", "z">>

LowerChar(c) ==
    IF \E k \in 1..Len(UpperCase) : UpperCase[k] = c
    THEN LowerCase[CHOOSE k \in 1..Len(UpperCase) : UpperCase[k] = c]
    ELSE c

\* str.lower()
RECURSIVE Lower(_)
Lower(s) == IF Len(s) = 0 THEN "" ELSE LowerChar(Char(s, 1)) \o Lower(Tail(s))

\* Python's `needle in hay` for strings.
Contains(needle, hay) ==
    \E i \in 1..(Len(hay) - Len(needle) + 1) :
        SubSeq(hay, i, i + Len(needle) - 1) = needle

(***************************************************************************)
(* The Fallback Responder.                                                 *)
(***************************************************************************)
\* The same registry iterated in the alphabetical order of its keys.
fallback_responses_sorted == <<
    [key |-> "bye", response |-> "Bye! Have a great day!"],
    [key |-> "goodbye", response |-> "Goodbye! It was nice talking with you."],
    [key |-> "hello", response |-> "Hello! I'm your voice assistant. I can help with LeetCode problems and general questions!"],
    [key |-> "hi", response |-> "Hi there! Ask me about LeetCode problems or any other questions!"],
    [key |-> "how are you", response |-> "I'm doing great! Ready to help with LeetCode or other questions. How can I assist you?"],
    [key |-> "thank you", response |-> "You're welcome! Is there anything else I can help you with?"],
    [key |-> "thanks", response |-> "You're welcome!"],
    [key |-> "what is your name", response |-> "I'm your voice assistant powered by AI with LeetCode integration."] >>

\* self.fallback_responses, in the dict's insertion order.
fallback_responses == <<
    [key |-> "hello", response |-> "Hello! I'm your voice assistant. I can help with LeetCode problems and general questions!"],
    [key |-> "hi", response |-> "Hi there! Ask me about LeetCode problems or any other questions!"],
    [key |-> "how are you", response |-> "I'm doing great! Ready to help with LeetCode or other questions. How can I assist you?"],
    [key |-> "what is your name", response |-> "I'm your voice assistant powered by AI with LeetCode integration."],
    [key |-> "goodbye", response |-> "Goodbye! It was nice talking with you."],
    [key |-> "bye", response |-> "Bye! Have a great day!"],
    [key |-> "thank you", response |-> "You're welcome! Is there anything else I can help you with?"],
    [key |-> "thanks", response |-> "You're welcome!"] >>

InterrogativeWords == {"what", "how", "why", "when", "where", "who"}
ArithmeticWords == {"calculate", "math", "plus", "minus"}

ReliableSourcesReply == "That's an interesting question! I'd recommend checking reliable sources for detailed information on this topic."
ComplexCalculationsReply == "I can help with basic math, but I'd need my full capabilities for complex calculations."
\* A responder that has nothing to say when nothing matches.
NoReply == ""

NeedAIReply == "I'm sorry, I need my AI capabilities to answer that properly. Please check your OpenAI API configuration."

\* A responder that looks for arithmetic words before interrogative ones.
get_fallback_response_arithmetic_first(question) ==
    LET question_lower == Strip(Lower(question))
        hits == {k \in 1..Len(fallback_responses) :
                    Contains(fallback_responses[k].key, question_lower)}
    IN  IF hits # {}
        THEN fallback_responses[CHOOSE k \in hits : \A j \in hits : k <= j].response
        ELSE IF \E w \in ArithmeticWords : Contains(w, question_lower)
        THEN ComplexCalculationsReply
        ELSE IF \E w \in InterrogativeWords : Contains(w, question_lower)
        THEN ReliableSourcesReply
        ELSE NeedAIReply

\* A responder that knows no category and always pleads for the AI.
FallbackAlwaysNeedAI(question) == NeedAIReply

\* QAProcessor._get_fallback_response
get_fallback_response(question) ==
    LET question_lower == Strip(Lower(question))
        hits == {k \in 1..Len(fallback_responses) :
                    Contains(fallback_responses[k].key, question_lower)}
    IN  IF hits # {}
        THEN fallback_responses[CHOOSE k \in hits : \A j \in hits : k <= j].response
        ELSE IF \E w \in InterrogativeWords : Contains(w, question_lower)
        THEN ReliableSourcesReply
        ELSE IF \E w \in ArithmeticWords : Contains(w, question_lower)
        THEN ComplexCalculationsReply
        ELSE NeedAIReply

\* The reply of process_question to an empty question.
DidntHearReply == "I didn't hear anything. Could you please repeat your question?"

(***************************************************************************)
(* Python values: None, dicts, JSON.                                       *)
(***************************************************************************)
\* An optional value: None is the empty tuple, a value v is <<v>>.
None == << >>
Some(v) == <<v>>

\* A dict is the sequence of its <<key, value>> items in insertion order.
EmptyDict == << >>

DictHas(d, k) == \E i \in 1..Len(d) : d[i][1] = k

\* d[k], for a key d has.
DictAt(d, k) == d[CHOOSE i \in 1..Len(d) : d[i][1] = k][2]

\* dict.get(k, default)
\* A lookup that takes the default for an empty username too
\* (function_args.get("username") or default).
DictGetOrDefault(d, k, default) ==
    IF DictHas(d, k) /\ ~(k = "username" /\ DictAt(d, k) = "")
    THEN DictAt(d, k)
    ELSE default

DictGet(d, k, default) == IF DictHas(d, k) THEN DictAt(d, k) ELSE default

\* json.dumps of a string (the texts of the model need no escaping).
Str(v) == "\"" \o v \o "\""

\* The dicts that reach json.dumps hold each value as its JSON text: Str(v)
\* for a string, the text itself for structured server data.
RECURSIVE JsonItems(_)
JsonItems(d) ==
    IF Len(d) = 0 THEN ""
    ELSE Str(d[1][1]) \o ": " \o d[1][2]
         \o (IF Len(d) > 1 THEN ", " ELSE "") \o JsonItems(Tail(d))

\* json.dumps of a dict
json_dumps(d) == "{" \o JsonItems(d) \o "}"

\* The argument texts the reasoning service sends with its tool calls, with
\* what json.loads makes of each; the last one is not JSON.
ArgNone == "{}"
ArgSlug == "{\"title_slug\": \"two-sum\"}"
ArgKeywords == "{\"keywords\": \"tree\", \"difficulty\": \"EASY\"}"
ArgUser == "{\"username\": \"alice\", \"limit\": 3}"
ArgEmptyUser == "{\"username\": \"\"}"
ArgTruncated == "{\"title_slug\": \"two-s"

\* json.loads: [ok |-> TRUE, value |-> the dict], or [ok |-> FALSE] where it
\* raises JSONDecodeError.
json_loads(s) ==
    CASE s = ArgNone -> [ok |-> TRUE, value |-> EmptyDict]
      [] s = ArgSlug -> [ok |-> TRUE, value |-> << <<"title_slug", "two-sum">> >>]
      [] s = ArgKeywords ->
            [ok |-> TRUE,
             value |-> << <<"keywords", "tree">>, <<"difficulty", "EASY">> >>]
      [] s = ArgUser ->
            [ok |-> TRUE, value |-> << <<"username", "alice">>, <<"limit", 3>> >>]
      [] s = ArgEmptyUser -> [ok |-> TRUE, value |-> << <<"username", "">> >>]
      [] OTHER -> [ok |-> FALSE]

(***************************************************************************)
(* The Data Client (LeetCodeAPIClient).  `net` is what the HTTP exchange   *)
(* does: "ok" (data), "nodata" (a reply without the data), "fail" (a       *)
(* transport error, an HTTP error status or a malformed reply).            *)
(***************************************************************************)
NetOutcomes == {"ok", "nodata", "fail"}

\* A failed exchange whose except clause fails in turn: its print (lines 87,
\* 128, 166, 217, 280) raises, and the exception leaves the operation.
PrintFails == "printfail"

\* str(e) of the exception the failing print raises.
PrintFailedError == "print failed"

\* An exception that leaves a Data Client operation, as the except clause of
\* its caller records it (qa_processor.py, lines 269-275).
Raised(msg) == << <<"error", Str(msg)>> >>

\* What the HTTP exchange of an invocation did, whatever the print did.
HttpOutcome(net) == IF net = PrintFails THEN "fail" ELSE net

\* LeetCodeAPIClient.get_daily_challenge
get_daily_challenge(net) ==
    IF net = "ok"
    THEN << <<"questionTitle", Str("Two Sum")>>, <<"difficulty", Str("Easy")>>,
            <<"titleSlug", Str("two-sum")>>, <<"date", Str("2024-01-01")>>,
            <<"link", Str("https://leetcode.com/problems/two-sum/")>> >>
    ELSE IF net = PrintFails THEN Raised(PrintFailedError)
    ELSE EmptyDict

\* LeetCodeAPIClient.get_problem
get_problem(title_slug, net) ==
    IF net = "ok"
    THEN << <<"title", Str("Two Sum")>>, <<"titleSlug", Str(title_slug)>>,
            <<"difficulty", Str("Easy")>> >>
    ELSE IF net = PrintFails THEN Raised(PrintFailedError)
    ELSE EmptyDict

\* LeetCodeAPIClient.search_problems
search_problems(keywords, difficulty, limit, net) ==
    IF net = "ok"
    THEN << <<"total", "1">>,
            <<"questions", "[{\"title\": \"Two Sum\"}]">> >>
    ELSE IF net = PrintFails THEN Raised(PrintFailedError)
    ELSE EmptyDict

\* username or self.username (lines 134 and 172): an empty username is
\* replaced by the client's own.
OrSelfUsername(self, username) ==
    IF username = "" THEN self.username ELSE username

\* LeetCodeAPIClient.get_user_profile
get_user_profile(self, username, net) ==
    IF net = "ok"
    THEN << <<"username", Str(OrSelfUsername(self, username))>>,
            <<"profile", "{\"ranking\": 1}">> >>
    ELSE IF net = PrintFails THEN Raised(PrintFailedError)
    ELSE EmptyDict

\* LeetCodeAPIClient.get_recent_submissions
get_recent_submissions(self, username, limit, net) ==
    IF net = "ok"
    THEN << <<"submissions", "[{\"title\": \"Two Sum\"}]">>,
            <<"username", Str(OrSelfUsername(self, username))>> >>
    ELSE IF net = PrintFails THEN Raised(PrintFailedError)
    ELSE EmptyDict

(***************************************************************************)
(* The reasoning service, as QAProcessor sees it.                          *)
(***************************************************************************)
\* A registry with a sixth declaration that has no dispatch case.
functions_with_delete_account ==
    <<"get_daily_challenge", "get_problem", "search_problems",
      "get_user_profile", "get_recent_submissions", "delete_account">>

\* The names of the tool declarations sent with the decide request.
functions == <<"get_daily_challenge", "get_problem", "search_problems",
               "get_user_profile", "get_recent_submissions">>

DecideSystemPrompt == "You are a helpful voice assistant with access to LeetCode data. Use the available functions when users ask about LeetCode problems, daily challenges, or coding questions. Give concise, conversational responses (1-3 sentences)."
SynthesizeSystemPrompt == "You are a helpful voice assistant. Give concise, conversational responses (1-3 sentences)."

\* The questions put to process_question.
Questions == {"", " \t ", VT \o " " \o US, "hello", " Two Sum? "}

\* The texts the reasoning service answers with.
ServiceTexts == {"Two Sum is an Easy difficulty problem.",
                 "  Two Sum is Easy.\n", "", " \n"}

\* The (name, arguments) pairs the reasoning service asks for.
ToolCallChoices ==
    { [name |-> "get_daily_challenge", arguments |-> ArgNone],
      [name |-> "get_problem", arguments |-> ArgSlug],
      [name |-> "get_problem", arguments |-> ArgNone],
      [name |-> "get_problem", arguments |-> ArgTruncated],
      [name |-> "search_problems", arguments |-> ArgKeywords],
      [name |-> "get_user_profile", arguments |-> ArgNone],
      [name |-> "get_user_profile", arguments |-> ArgEmptyUser],
      [name |-> "get_recent_submissions", arguments |-> ArgNone],
      [name |-> "get_recent_submissions", arguments |-> ArgUser],
      [name |-> "delete_account", arguments |-> ArgNone] }

CallId(i) == "call_" \o ToString(i)

\* The tool_calls lists of a response: each call with its own id.
WithIds(l) ==
    [i \in 1..Len(l) |->
        [id |-> CallId(i), name |-> l[i].name, arguments |-> l[i].arguments]]

ToolCallLists ==
    UNION { { WithIds(l) : l \in [1..n -> ToolCallChoices] } : n \in 1..MaxCalls }

NoChoices == [kind |-> "malformed", content |-> None, tool_calls |-> << >>]
ApiError == [kind |-> "raise", content |-> None, tool_calls |-> << >>]
Message(c, tcs) == [kind |-> "message", content |-> c, tool_calls |-> tcs]

\* What chat.completions.create does at the decide phase: raise, return a
\* response without choices, or return a message.
DecideResponses ==
    {ApiError, NoChoices, Message(None, << >>)}
    \cup { Message(Some(t), << >>) : t \in ServiceTexts }
    \cup { Message(None, tcs) : tcs \in ToolCallLists }

\* The same at the synthesize phase; the service may ask for tools again.
SynthesizeResponses ==
    {ApiError, NoChoices, Message(None, << >>)}
    \cup { Message(Some(t), << >>) : t \in ServiceTexts }
    \cup { Message(Some("Let me look that up."),
                   <<[id |-> CallId(1), name |-> "get_daily_challenge",
                      arguments |-> ArgNone]>>) }

(***************************************************************************)
(* The state of one QAProcessor and of the question it is answering.       *)
(***************************************************************************)
VARIABLES
    use_openai,        \* self.use_openai: a reasoning service is configured
    mcp_available,     \* self.mcp_available: the Data Client was constructed
    default_username,  \* self.default_username ("" when LEETCODE_USERNAME is empty)
    pc,                \* where process_question stands
    dstate,            \* where the Dispatcher (_get_openai_response_with_mcp) stands
    question,          \* the question being answered
    response,          \* the decide response whose tool calls are being executed
    messages,          \* the conversation _handle_function_calls builds
    idx,               \* the tool call the loop of _handle_function_calls is at
    requests,          \* the requests sent to the reasoning service for this question
    replies,           \* what the reasoning service answered to those requests
    dc_calls,          \* the Data Client operations invoked for this question
    answer,            \* None, or Some(the text process_question returned)
    first_run,         \* None, or Some(what the first of two invocations on the
                       \* same script was asked, was served and returned)
    vstate,            \* where the voice application stands: "main" (choosing
                       \* its mode); in listen_and_respond "ready" (recording),
                       \* "heard", "processing" (in process_question),
                       \* "speaking", "interrupted" and "handling",
                       \* "apologising" (in its except clauses); "returned";
                       \* "ended", "crashed" (the loop is over); in
                       \* test_components "testing", "test_recording",
                       \* "tested", "test_failed"
    user_question,     \* what record_audio returned
    spoken,            \* the texts handed to tts.speak in this round
    asked,             \* the questions handed to qa.process_question
    returned,          \* None, or Some(what listen_and_respond returned)
    outcome            \* the branch listen_and_respond took: "" (none yet),
                       \* "empty", "exit", "answered", "interrupt", "exception"

vars == <<use_openai, mcp_available, default_username, pc, dstate, question,
          response, messages, idx, requests, replies, dc_calls, answer,
          first_run, vstate, user_question, spoken, asked, returned, outcome>>

config == <<use_openai, mcp_available, default_username>>

\* The variables of VoiceQAApp.listen_and_respond and run_interactive_mode.
voice == <<vstate, user_question, spoken, asked, returned, outcome>>

\* The voice application before main chooses its mode.
VoiceInit ==
    /\ vstate = "main"
    /\ user_question = ""
    /\ spoken = << >>
    /\ asked = << >>
    /\ returned = None
    /\ outcome = ""

\* QAProcessor.__init__: the key and the environment decide the configuration.
\* When LeetCodeAPIClient() raises, leetcode_client is None and
\* default_username is never assigned.
Init ==
    /\ use_openai \in BOOLEAN
    /\ \/ mcp_available = TRUE /\ default_username \in {"dviresh1993", ""}
       \/ mcp_available = FALSE /\ default_username = ""
    /\ pc = "idle"
    /\ dstate = "Idle"
    /\ question = ""
    /\ response = NoChoices
    /\ messages = << >>
    /\ idx = 0
    /\ requests = << >>
    /\ replies = << >>
    /\ dc_calls = << >>
    /\ answer = None
    /\ first_run = None
    /\ VoiceInit

(***************************************************************************)
(* One tool call of _handle_function_calls (the body of the try).          *)
(***************************************************************************)
ErrorResult(msg) == << <<"error", Str(msg)>> >>

NoneTypeError(op) == "'NoneType' object has no attribute '" \o op \o "'"
NoDefaultUsernameError == "'QAProcessor' object has no attribute 'default_username'"
NoUsernameError == "No username provided and no default username set"
\* The message of line 260 without the name of the function.
UnknownFunctionErrorNameless(name) == "Unknown function"

UnknownFunctionError(name) == "Unknown function: " \o name

\* `not username` (lines 246, 252)
NoUsername(username) == username = ""

\* One Data Client invocation, as the client sees it.
DataCall(op, title_slug, keywords, difficulty, username, limit, net) ==
    [op |-> op, title_slug |-> title_slug, keywords |-> keywords,
     difficulty |-> difficulty, username |-> username, limit |-> limit,
     net |-> HttpOutcome(net)]

\* The entry of dc_calls for the invocations (none or one) made for the tool
\* call `id`.
Logged(id, call) ==
    [k \in 1..Len(call) |->
        [id |-> id, op |-> call[k].op, title_slug |-> call[k].title_slug,
         keywords |-> call[k].keywords, difficulty |-> call[k].difficulty,
         username |-> call[k].username, limit |-> call[k].limit,
         net |-> call[k].net]]

\* The limit search_problems itself declares (leetcode_api_client.py, line 220).
ClientSearchLimitDefault == 10

\* function_args.get("limit", 5) (line 242)
SearchLimitDefault == 5

\* function_args.get("limit", 10) (line 257)
RecentLimitDefault == 10

\* self.leetcode_client (line 36): LeetCodeAPIClient.__init__ reads its username
\* from LEETCODE_USERNAME with the default of line 33 (leetcode_api_client.py,
\* line 18), after the same load_dotenv(): it is the default identity.
leetcode_client == [username |-> default_username]

\* What the try block makes of one parsed tool call: the result it records
\* and the Data Client invocation it made (None when it made none).
Outcome(result, call) == [result |-> result, call |-> call]

\* The try block of lines 232-260 with its except clause (lines 269-275):
\* an exception raised in the block becomes the error result {"error": str(e)}.
call_function(function_name, function_args, net) ==
    CASE function_name = "get_daily_challenge" ->
            IF ~mcp_available
            THEN Outcome(ErrorResult(NoneTypeError(function_name)), None)
            ELSE Outcome(get_daily_challenge(net),
                         Some(DataCall(function_name, "", "", "", "", 0, net)))
      [] function_name = "get_problem" ->
            IF ~mcp_available
            THEN Outcome(ErrorResult(NoneTypeError(function_name)), None)
            ELSE IF ~DictHas(function_args, "title_slug")
            THEN Outcome(ErrorResult("'title_slug'"), None)
            ELSE Outcome(get_problem(DictAt(function_args, "title_slug"), net),
                         Some(DataCall(function_name,
                                       DictAt(function_args, "title_slug"),
                                       "", "", "", 0, net)))
      [] function_name = "search_problems" ->
            IF ~mcp_available
            THEN Outcome(ErrorResult(NoneTypeError(function_name)), None)
            ELSE LET keywords == DictGet(function_args, "keywords", "")
                     difficulty == DictGet(function_args, "difficulty", "")
                     limit == DictGet(function_args, "limit", SearchLimitDefault)
                 IN  Outcome(search_problems(keywords, difficulty, limit, net),
                             Some(DataCall(function_name, "", keywords,
                                           difficulty, "", limit, net)))
      [] function_name = "get_user_profile" ->
            IF ~mcp_available
            THEN Outcome(ErrorResult(NoDefaultUsernameError), None)
            ELSE LET username == DictGet(function_args, "username", default_username)
                 IN  IF NoUsername(username)
                     THEN Outcome(ErrorResult(NoUsernameError), None)
                     ELSE Outcome(get_user_profile(leetcode_client, username, net),
                                  Some(DataCall(function_name, "", "", "",
                                                username, 0, net)))
      [] function_name = "get_recent_submissions" ->
            IF ~mcp_available
            THEN Outcome(ErrorResult(NoDefaultUsernameError), None)
            ELSE LET username == DictGet(function_args, "username", default_username)
                     limit == DictGet(function_args, "limit", RecentLimitDefault)
                 IN  IF NoUsername(username)
                     THEN Outcome(ErrorResult(NoUsernameError), None)
                     ELSE Outcome(get_recent_submissions(leetcode_client, username, limit,
                                                        net),
                                  Some(DataCall(function_name, "", "", "",
                                                username, limit, net)))
      [] OTHER -> Outcome(ErrorResult(UnknownFunctionError(function_name)), None)

\* A tool turn filed under the id of the first call, whichever call it answers.
ToolTurnFirstId(id, result) ==
    [role |-> "tool", tool_call_id |-> CallId(1), content |-> json_dumps(result)]

ToolTurn(id, result) ==
    [role |-> "tool", tool_call_id |-> id, content |-> json_dumps(result)]

(***************************************************************************)
(* process_question, step by step.  pc is "idle" (no question), then       *)
(* "dispatcher" (inside _get_openai_response_with_mcp), "except" (the      *)
(* exception of the Dispatcher caught at line 74) and "returned".          *)
(***************************************************************************)
SystemTurn(text) == [role |-> "system", content |-> text]
UserTurn(text) == [role |-> "user", content |-> text]

\* response.choices[0].message of a response that has choices.
AssistantMessage(r) ==
    [role |-> "assistant", content |-> r.content, tool_calls |-> r.tool_calls]

Request(phase, msgs, tools) == [phase |-> phase, messages |-> msgs, tools |-> tools]

\* The request of lines 184-200.
DecideRequest(q) ==
    Request("decide", <<SystemTurn(DecideSystemPrompt), UserTurn(q)>>, functions)

\* Entry of process_question (lines 67-79) up to the first wait: the empty
\* question is answered at once, without a reasoning service the Fallback
\* Responder answers, otherwise the decide request is sent.
process_question(q) ==
    /\ pc = "idle"
    /\ question' = q
    /\ IF Strip(q) = ""
       THEN /\ answer' = Some(DidntHearReply)
            /\ pc' = "returned"
            /\ UNCHANGED <<dstate, requests>>
       ELSE IF use_openai
       THEN /\ requests' = Append(requests, DecideRequest(q))
            /\ dstate' = "AwaitingDecision"
            /\ pc' = "dispatcher"
            /\ UNCHANGED answer
       ELSE /\ answer' = Some(get_fallback_response(q))
            /\ pc' = "returned"
            /\ UNCHANGED <<dstate, requests>>
    /\ UNCHANGED <<config, first_run, voice, response, messages, idx, replies, dc_calls>>

\* A Dispatcher that swallows its failure and returns an empty text.
RaiseSwallowed ==
    /\ dstate' = "Done"
    /\ pc' = "returned"
    /\ answer' = Some("")

\* The Dispatcher raises: the exception leaves _get_openai_response_with_mcp
\* (line 211) and is caught by process_question (line 74).
Raise ==
    /\ dstate' = "Error"
    /\ pc' = "except"
    /\ UNCHANGED answer

\* The Dispatcher returns text, and process_question returns it (line 73).
ReturnText(text) ==
    /\ dstate' = "Done"
    /\ pc' = "returned"
    /\ answer' = Some(text)

\* The text of a response without tool calls: message.content.strip(), which
\* raises when the content is None.
FinalText(r) ==
    IF r.kind # "message" \/ r.content = None THEN Raise
    ELSE ReturnText(Strip(r.content[1]))

\* The decide request completes (lines 184-208, 215-225).
decide_response(r) ==
    /\ pc = "dispatcher"
    /\ dstate = "AwaitingDecision"
    /\ replies' = Append(replies, r)
    /\ IF r.kind = "message" /\ r.tool_calls # << >>
       THEN /\ response' = r
            /\ messages' = <<SystemTurn(SynthesizeSystemPrompt),
                             UserTurn(question), AssistantMessage(r)>>
            /\ idx' = 1
            /\ dstate' = "ExecutingTools"
            /\ UNCHANGED <<pc, answer>>
       ELSE /\ FinalText(r)
            /\ UNCHANGED <<response, messages, idx>>
    /\ UNCHANGED <<config, first_run, voice, question, requests, dc_calls>>

\* The content of a tool turn is an error payload.
IsErrorContent(content) ==
    Len(content) >= 10 /\ SubSeq(content, 1, 10) = "{\"error\": "

\* A loop with json.loads inside its try block: arguments that do not parse
\* give an error result and the loop goes on.
execute_tool_call_parse_guarded(net) ==
    /\ pc = "dispatcher"
    /\ dstate = "ExecutingTools"
    /\ idx <= Len(response.tool_calls)
    /\ LET tool_call == response.tool_calls[idx]
           parsed == json_loads(tool_call.arguments)
           out == IF parsed.ok
                  THEN call_function(tool_call.name, parsed.value, net)
                  ELSE Outcome(ErrorResult("Unterminated string"), None)
       IN  /\ messages' = Append(messages, ToolTurn(tool_call.id, out.result))
           /\ dc_calls' = dc_calls \o Logged(tool_call.id, out.call)
           /\ idx' = idx + 1
           /\ UNCHANGED <<pc, dstate, answer>>
    /\ UNCHANGED <<config, first_run, voice, question, response, requests, replies>>

\* A loop whose except clause lets the AttributeError of the missing client
\* through.
execute_tool_call_needs_client(net) ==
    /\ pc = "dispatcher"
    /\ dstate = "ExecutingTools"
    /\ idx <= Len(response.tool_calls)
    /\ LET tool_call == response.tool_calls[idx]
           parsed == json_loads(tool_call.arguments)
       IN  IF ~parsed.ok \/ ~mcp_available
           THEN /\ Raise
                /\ UNCHANGED <<messages, idx, dc_calls>>
           ELSE LET out == call_function(tool_call.name, parsed.value, net)
                IN  /\ messages' = Append(messages, ToolTurn(tool_call.id, out.result))
                    /\ dc_calls' = dc_calls \o Logged(tool_call.id, out.call)
                    /\ idx' = idx + 1
                    /\ UNCHANGED <<pc, dstate, answer>>
    /\ UNCHANGED <<config, first_run, voice, question, response, requests, replies>>

\* A loop that takes the tool calls from the last to the first.
execute_tool_call_reversed(net) ==
    /\ pc = "dispatcher"
    /\ dstate = "ExecutingTools"
    /\ idx <= Len(response.tool_calls)
    /\ LET tool_call == response.tool_calls[Len(response.tool_calls) + 1 - idx]
           parsed == json_loads(tool_call.arguments)
       IN  IF ~parsed.ok
           THEN /\ Raise
                /\ UNCHANGED <<messages, idx, dc_calls>>
           ELSE LET out == call_function(tool_call.name, parsed.value, net)
                IN  /\ messages' = Append(messages, ToolTurn(tool_call.id, out.result))
                    /\ dc_calls' = dc_calls \o Logged(tool_call.id, out.call)
                    /\ idx' = idx + 1
                    /\ UNCHANGED <<pc, dstate, answer>>
    /\ UNCHANGED <<config, first_run, voice, question, response, requests, replies>>

\* A Dispatcher that keeps the username of a tool call as the default
\* identity of the calls to come.
execute_tool_call_remembers_user(net) ==
    /\ pc = "dispatcher"
    /\ dstate = "ExecutingTools"
    /\ idx <= Len(response.tool_calls)
    /\ LET tool_call == response.tool_calls[idx]
           parsed == json_loads(tool_call.arguments)
       IN  IF ~parsed.ok
           THEN /\ Raise
                /\ UNCHANGED <<messages, idx, dc_calls, default_username>>
           ELSE LET out == call_function(tool_call.name, parsed.value, net)
                IN  /\ messages' = Append(messages, ToolTurn(tool_call.id, out.result))
                    /\ dc_calls' = dc_calls \o Logged(tool_call.id, out.call)
                    /\ idx' = idx + 1
                    /\ default_username' =
                          DictGet(parsed.value, "username", default_username)
                    /\ UNCHANGED <<pc, dstate, answer>>
    /\ UNCHANGED <<use_openai, mcp_available, first_run, voice, question, response,
                   requests, replies>>

\* A loop that gives up on the remaining tool calls at the first error result.
execute_tool_call_abort(net) ==
    /\ pc = "dispatcher"
    /\ dstate = "ExecutingTools"
    /\ idx <= Len(response.tool_calls)
    /\ LET tool_call == response.tool_calls[idx]
           parsed == json_loads(tool_call.arguments)
       IN  IF ~parsed.ok
           THEN /\ Raise
                /\ UNCHANGED <<messages, idx, dc_calls>>
           ELSE LET out == call_function(tool_call.name, parsed.value, net)
                    turn == ToolTurn(tool_call.id, out.result)
                IN  /\ messages' = Append(messages, turn)
                    /\ dc_calls' = dc_calls \o Logged(tool_call.id, out.call)
                    /\ idx' = IF IsErrorContent(turn.content)
                              THEN Len(response.tool_calls) + 1 ELSE idx + 1
                    /\ UNCHANGED <<pc, dstate, answer>>
    /\ UNCHANGED <<config, first_run, voice, question, response, requests, replies>>

\* One iteration of the loop of _handle_function_calls (lines 228-275).
execute_tool_call(net) ==
    /\ pc = "dispatcher"
    /\ dstate = "ExecutingTools"
    /\ idx <= Len(response.tool_calls)
    /\ LET tool_call == response.tool_calls[idx]
           parsed == json_loads(tool_call.arguments)
       IN  IF ~parsed.ok
           THEN /\ Raise
                /\ UNCHANGED <<messages, idx, dc_calls>>
           ELSE LET out == call_function(tool_call.name, parsed.value, net)
                IN  /\ messages' = Append(messages, ToolTurn(tool_call.id, out.result))
                    /\ dc_calls' = dc_calls \o Logged(tool_call.id, out.call)
                    /\ idx' = idx + 1
                    /\ UNCHANGED <<pc, dstate, answer>>
    /\ UNCHANGED <<config, first_run, voice, question, response, requests, replies>>

\* A Dispatcher that may send the synthesize request once one tool call has
\* its result, the others still to run.
send_synthesize_early ==
    /\ pc = "dispatcher"
    /\ dstate = "ExecutingTools"
    /\ idx > 1
    /\ requests' = Append(requests, Request("synthesize", messages, << >>))
    /\ dstate' = "AwaitingSynthesis"
    /\ UNCHANGED <<config, first_run, voice, pc, question, response, messages, idx, replies,
                   dc_calls, answer>>

\* The loop is over: the synthesize request is sent (lines 278-283).
send_synthesize ==
    /\ pc = "dispatcher"
    /\ dstate = "ExecutingTools"
    /\ idx > Len(response.tool_calls)
    /\ requests' = Append(requests, Request("synthesize", messages, << >>))
    /\ dstate' = "AwaitingSynthesis"
    /\ UNCHANGED <<config, first_run, voice, pc, question, response, messages, idx, replies,
                   dc_calls, answer>>

\* A Dispatcher that runs the tool calls of the synthesize response too.
synthesize_response_chained(r) ==
    /\ pc = "dispatcher"
    /\ dstate = "AwaitingSynthesis"
    /\ replies' = Append(replies, r)
    /\ IF r.kind = "message" /\ r.tool_calls # << >>
       THEN /\ response' = r
            /\ messages' = Append(messages, AssistantMessage(r))
            /\ idx' = 1
            /\ dstate' = "ExecutingTools"
            /\ UNCHANGED <<pc, answer>>
       ELSE /\ FinalText(r)
            /\ UNCHANGED <<response, messages, idx>>
    /\ UNCHANGED <<config, first_run, voice, question, requests, dc_calls>>

\* A Dispatcher that gives up on the synthesized text when a tool failed.
synthesize_response_unless_tool_error(r) ==
    /\ pc = "dispatcher"
    /\ dstate = "AwaitingSynthesis"
    /\ replies' = Append(replies, r)
    /\ IF \E k \in 4..Len(messages) : IsErrorContent(messages[k].content)
       THEN Raise
       ELSE FinalText(r)
    /\ UNCHANGED <<config, first_run, voice, question, response, messages, idx, requests, dc_calls>>

\* The synthesize request completes (lines 278-285).
synthesize_response(r) ==
    /\ pc = "dispatcher"
    /\ dstate = "AwaitingSynthesis"
    /\ replies' = Append(replies, r)
    /\ FinalText(r)
    /\ UNCHANGED <<config, first_run, voice, question, response, messages, idx, requests, dc_calls>>

\* An except clause that gives up on the reasoning service for good.
except_fallback_disables_dispatcher ==
    /\ pc = "except"
    /\ answer' = Some(get_fallback_response(question))
    /\ pc' = "returned"
    /\ use_openai' = FALSE
    /\ UNCHANGED <<mcp_available, default_username, first_run, voice, dstate, question,
                   response, messages, idx, requests, replies, dc_calls>>

\* The except clause of process_question and the fallback (lines 74-79).
except_fallback ==
    /\ pc = "except"
    /\ answer' = Some(get_fallback_response(question))
    /\ pc' = "returned"
    /\ UNCHANGED <<config, first_run, voice, dstate, question, response, messages, idx, requests,
                   replies, dc_calls>>

\* The caller has the answer; the conversation is dropped and the processor
\* waits for the next question.
return_answer ==
    /\ pc = "returned"
    /\ pc' = "idle"
    /\ dstate' = "Idle"
    /\ question' = ""
    /\ response' = NoChoices
    /\ messages' = << >>
    /\ idx' = 0
    /\ requests' = << >>
    /\ replies' = << >>
    /\ dc_calls' = << >>
    /\ answer' = None
    /\ UNCHANGED <<config, first_run, voice>>

Next ==
    \/ \E q \in Questions : process_question(q)
    \/ \E r \in DecideResponses : decide_response(r)
    \/ \E net \in NetOutcomes : execute_tool_call(net)
    \/ send_synthesize
    \/ \E r \in SynthesizeResponses : synthesize_response(r)
    \/ except_fallback
    \/ return_answer

Spec == Init /\ [][Next]_vars

(***************************************************************************)
(* The same program with a Data Client whose HTTP exchange either returns  *)
(* the data or runs into the timeout of its post call (timeout=30, e.g.    *)
(* leetcode_api_client.py line 70): requests raises Timeout, which the     *)
(* operation catches like every other exception (lines 86-88).             *)
(***************************************************************************)
NetOutcomesTimed == {"ok", "timeout"}

NextTimed ==
    \/ \E q \in Questions : process_question(q)
    \/ \E r \in DecideResponses : decide_response(r)
    \/ \E net \in NetOutcomesTimed : execute_tool_call(net)
    \/ send_synthesize
    \/ \E r \in SynthesizeResponses : synthesize_response(r)
    \/ except_fallback
    \/ return_answer

SpecTimed == Init /\ [][NextTimed]_vars

(***************************************************************************)
(* The Fallback Responder on its own: _get_fallback_response applied to    *)
(* questions made of up to MaxWords phrases joined by blanks.  The phrases *)
(* are the triggers (some in capitals), category words, words that hold a  *)
(* trigger or a category word inside ("this", "show"), neutral words, the  *)
(* empty phrase and a phrase wrapped in whitespace.                        *)
(***************************************************************************)
MaxWords == 2

FallbackWords ==
    { "hello", "Hi", "how are you", "what is your name", "goodbye", "BYE",
      "thank you", "thanks", "what", "Why", "plus", "Calculate", "this",
      "show", "sum", "", "\tmath\n" }

RECURSIVE Join(_)
Join(ws) ==
    IF Len(ws) = 0 THEN ""
    ELSE IF Len(ws) = 1 THEN ws[1]
    ELSE ws[1] \o " " \o Join(Tail(ws))

FallbackQuestions ==
    { Join(ws) : ws \in UNION { [1..n -> FallbackWords] : n \in 0..MaxWords } }

InitFallback ==
    /\ use_openai = FALSE
    /\ mcp_available = TRUE
    /\ default_username = "dviresh1993"
    /\ pc = "idle"
    /\ dstate = "Idle"
    /\ question \in FallbackQuestions
    /\ response = NoChoices
    /\ messages = << >>
    /\ idx = 0
    /\ requests = << >>
    /\ replies = << >>
    /\ dc_calls = << >>
    /\ answer = None
    /\ first_run = None
    /\ VoiceInit

\* A call of _get_fallback_response(question) (lines 287-302).
call_get_fallback_response ==
    /\ pc = "idle"
    /\ answer' = Some(get_fallback_response(question))
    /\ pc' = "returned"
    /\ UNCHANGED <<config, first_run, voice, dstate, question, response, messages, idx, requests,
                   replies, dc_calls>>

NextFallback == call_get_fallback_response

SpecFallback == InitFallback /\ [][NextFallback]_vars

(***************************************************************************)
(* The execution of tool calls looked at more closely: one question, the   *)
(* decide response always asks for tools, and the tool calls include a     *)
(* recent-submissions call with an empty username.                         *)
(***************************************************************************)
ToolsQuestions == {"hello"}

ToolsToolCallChoices ==
    ToolCallChoices
        \cup { [name |-> "get_recent_submissions", arguments |-> ArgEmptyUser] }

ToolsToolCallLists ==
    UNION { { WithIds(l) : l \in [1..n -> ToolsToolCallChoices] } : n \in 1..MaxCalls }

ToolsDecideResponses == { Message(None, tcs) : tcs \in ToolsToolCallLists }

ToolsSynthesizeResponses == {ApiError, Message(Some("  Two Sum is Easy.\n"), << >>)}

NextTools ==
    \/ \E q \in ToolsQuestions : process_question(q)
    \/ \E r \in ToolsDecideResponses : decide_response(r)
    \/ \E net \in NetOutcomes : execute_tool_call(net)
    \/ send_synthesize
    \/ \E r \in ToolsSynthesizeResponses : synthesize_response(r)
    \/ except_fallback
    \/ return_answer

SpecTools == Init /\ [][NextTools]_vars

(***************************************************************************)
(* The Dispatcher with a console that can fail: the print of the except    *)
(* clause of a Data Client operation can raise after a failed exchange.    *)
(***************************************************************************)
PrintNets == NetOutcomes \cup {PrintFails}

\* One parsable tool call for each of the five operations.
PrintsToolCallChoices ==
    { [name |-> "get_daily_challenge", arguments |-> ArgNone],
      [name |-> "get_problem", arguments |-> ArgSlug],
      [name |-> "search_problems", arguments |-> ArgKeywords],
      [name |-> "get_user_profile", arguments |-> ArgNone],
      [name |-> "get_recent_submissions", arguments |-> ArgUser] }

PrintsToolCallLists ==
    UNION { { WithIds(l) : l \in [1..n -> PrintsToolCallChoices] } : n \in 1..MaxCalls }

PrintsDecideResponses ==
    {ApiError} \cup { Message(None, tcs) : tcs \in PrintsToolCallLists }

NextPrints ==
    \/ \E q \in ToolsQuestions : process_question(q)
    \/ \E r \in PrintsDecideResponses : decide_response(r)
    \/ \E net \in PrintNets : execute_tool_call(net)
    \/ send_synthesize
    \/ \E r \in ToolsSynthesizeResponses : synthesize_response(r)
    \/ except_fallback
    \/ return_answer

SpecPrints == Init /\ [][NextPrints]_vars

(***************************************************************************)
(* process_question called twice on one QAProcessor, the reasoning service *)
(* and the Data Client replaying in the second call what they did in the   *)
(* first: the same question, the same responses in the same order, the     *)
(* same outcome for the k-th Data Client invocation.                       *)
(***************************************************************************)
ReplayQuestions == {"hello", " \t "}

ReplayToolCallChoices ==
    { [name |-> "get_daily_challenge", arguments |-> ArgNone],
      [name |-> "get_user_profile", arguments |-> ArgNone],
      [name |-> "get_recent_submissions", arguments |-> ArgUser],
      [name |-> "get_problem", arguments |-> ArgTruncated] }

ReplayToolCallLists ==
    UNION { { WithIds(l) : l \in [1..n -> ReplayToolCallChoices] } : n \in 1..MaxCalls }

ReplayDecideResponses ==
    {ApiError, Message(Some("Two Sum is an Easy difficulty problem."), << >>)}
    \cup { Message(None, tcs) : tcs \in ReplayToolCallLists }

ReplaySynthesizeResponses == {ApiError, Message(Some("  Two Sum is Easy.\n"), << >>)}

ReplayNets == {"ok", "fail"}

\* What the scripted services hand out next: anything in the first call, what
\* the first call got in the second.
ScriptQuestions ==
    IF first_run = None THEN ReplayQuestions ELSE {first_run[1].question}

ScriptResponses(k, fresh) ==
    IF first_run = None THEN fresh
    ELSE IF k <= Len(first_run[1].replies) THEN {first_run[1].replies[k]}
    ELSE {}

ScriptNets ==
    IF first_run = None THEN ReplayNets
    ELSE IF Len(dc_calls) < Len(first_run[1].nets)
    THEN {first_run[1].nets[Len(dc_calls) + 1]}
    ELSE ReplayNets

\* The first call has returned; the caller calls process_question again.
\* Nothing of the QAProcessor is touched in between; the locals of the
\* first call are gone.
call_again ==
    /\ pc = "returned"
    /\ first_run = None
    /\ first_run' = Some([use_openai |-> use_openai,
                          question |-> question, replies |-> replies,
                          nets |-> [k \in 1..Len(dc_calls) |-> dc_calls[k].net],
                          requests |-> requests, answer |-> answer])
    /\ pc' = "idle"
    /\ dstate' = "Idle"
    /\ question' = ""
    /\ response' = NoChoices
    /\ messages' = << >>
    /\ idx' = 0
    /\ requests' = << >>
    /\ replies' = << >>
    /\ dc_calls' = << >>
    /\ answer' = None
    /\ UNCHANGED <<config, voice>>

NextReplay ==
    \/ \E q \in ScriptQuestions : process_question(q)
    \/ \E r \in ScriptResponses(1, ReplayDecideResponses) : decide_response(r)
    \/ \E net \in ScriptNets : execute_tool_call(net)
    \/ send_synthesize
    \/ \E r \in ScriptResponses(2, ReplaySynthesizeResponses) : synthesize_response(r)
    \/ except_fallback
    \/ call_again

SpecReplay == Init /\ [][NextReplay]_vars

(***************************************************************************)
(* The voice application: main chooses between run_interactive_mode, the   *)
(* loop that calls listen_and_respond (which records, checks for an exit   *)
(* word, calls process_question of its QAProcessor and speaks the answer), *)
(* and test_components.  Ctrl+C can arrive at any statement; a print can   *)
(* fail at any statement that prints.                                      *)
(***************************************************************************)
CouldntHearMsg == "I couldn't hear you clearly. Please try again."
GoodbyeMsg == "Goodbye! Thanks for using the voice assistant."
CouldntProcessMsg == "I'm sorry, I couldn't process your question. Please try again."
SorryErrorMsg == "Sorry, I encountered an error. Please try again."

\* The sentence and the question of test_components (lines 123 and 127).
TtsTestSentence == "Text to speech is working correctly."
TestQuestion == "Hello, can you hear me?"

ExitWords == {"quit", "exit", "stop", "bye"}

\* What record_audio returns: the transcription, trimmed, or "".
Transcriptions == {"", "hello", "Two Sum?", "Please STOP", "goodbye", "quit"}

\* What the services do to the QAProcessor of the voice loop.
VoiceToolCallLists ==
    UNION { { WithIds(l) :
                l \in [1..n -> { [name |-> "get_daily_challenge",
                                  arguments |-> ArgNone] }] } : n \in 1..MaxCalls }

VoiceDecideResponses ==
    {ApiError, Message(Some(" \n"), << >>),
     Message(Some("Two Sum is an Easy difficulty problem."), << >>)}
    \cup { Message(None, tcs) : tcs \in VoiceToolCallLists }

VoiceSynthesizeResponses ==
    {Message(Some("  Two Sum is Easy.\n"), << >>), Message(Some(""), << >>)}

\* The positions of test_components.
TestStates == {"testing", "test_recording", "tested", "test_failed"}

\* What no action of the voice application touches of the QAProcessor.
processor == <<pc, dstate, question, response, messages, idx, requests,
               replies, dc_calls, answer>>

\* The same without the record of the Data Client invocations.
processor_but_calls == <<pc, dstate, question, response, messages, idx,
                         requests, replies, answer>>

\* Where Ctrl+C can cut an invocation of the Data Client short, and what the
\* HTTP exchange has done by then: nothing yet (inside requests.post,
\* leetcode_api_client.py line 70 and its like: "NONE"), or it has brought
\* data, no data or failed and the operation has not returned yet (lines
\* 71-88) or its result is not yet appended (qa_processor.py line 263).
CutShortNets == {"NONE", "ok", "nodata", "fail"}

\* dc_calls as an exception finds it that leaves process_question from
\* where it stands: as it is, or, when the loop of _handle_function_calls
\* stands at a tool call that invokes the Data Client, with that invocation
\* and no tool turn for it.
CallsCutShort ==
    {dc_calls} \cup
    IF /\ pc = "dispatcher"
       /\ dstate = "ExecutingTools"
       /\ idx \in 1..Len(response.tool_calls)
       /\ json_loads(response.tool_calls[idx].arguments).ok
    THEN LET tool_call == response.tool_calls[idx]
             args == json_loads(tool_call.arguments).value
         IN  { dc_calls \o Logged(tool_call.id,
                                  call_function(tool_call.name, args, net).call) :
                 net \in CutShortNets }
    ELSE {}

\* An except clause (lines 91-95) that ends the loop.
exception_returns_false ==
    /\ vstate = "apologising"
    /\ returned' = Some(FALSE)
    /\ vstate' = "returned"
    /\ UNCHANGED <<config, first_run, processor, user_question, spoken, asked,
                   outcome>>

\* A listen_and_respond that speaks the answer as the processor gave it.
respond_as_given ==
    /\ vstate = "processing"
    /\ pc = "returned"
    /\ spoken' = Append(spoken, answer[1])
    /\ outcome' = "answered"
    /\ vstate' = "speaking"
    /\ UNCHANGED <<config, first_run, processor, user_question, asked, returned>>

\* main, choice 1 (line 174): run_interactive_mode up to its first call of
\* listen_and_respond (lines 99-108).
run_interactive_mode ==
    /\ vstate = "main"
    /\ vstate' = "ready"
    /\ UNCHANGED <<config, first_run, processor, user_question, spoken, asked,
                   returned, outcome>>

\* record_audio returns its transcription (lines 58-59).
listen(heard) ==
    /\ vstate = "ready"
    /\ user_question' = heard
    /\ vstate' = "heard"
    /\ UNCHANGED <<config, first_run, processor, spoken, asked, returned, outcome>>

\* The branch on the transcription (lines 61-76): an empty transcription
\* and an exit word have their message handed to tts.speak, any other
\* transcription is handed to process_question.
check_question ==
    /\ vstate = "heard"
    /\ IF user_question = ""
       THEN /\ spoken' = Append(spoken, CouldntHearMsg)
            /\ outcome' = "empty"
            /\ vstate' = "speaking"
            /\ UNCHANGED asked
       ELSE IF \E word \in ExitWords : Contains(word, Lower(user_question))
       THEN /\ spoken' = Append(spoken, GoodbyeMsg)
            /\ outcome' = "exit"
            /\ vstate' = "speaking"
            /\ UNCHANGED asked
       ELSE /\ asked' = Append(asked, user_question)
            /\ vstate' = "processing"
            /\ UNCHANGED <<spoken, outcome>>
    /\ UNCHANGED <<config, first_run, processor, user_question, returned>>

\* process_question has returned ai_response; it, or its replacement when it
\* is empty, is handed to tts.speak (lines 76-84).
respond ==
    /\ vstate = "processing"
    /\ pc = "returned"
    /\ spoken' = Append(spoken, IF answer[1] = "" THEN CouldntProcessMsg
                                ELSE answer[1])
    /\ outcome' = "answered"
    /\ vstate' = "speaking"
    /\ UNCHANGED <<config, first_run, processor, user_question, asked, returned>>

\* tts.speak has returned and listen_and_respond returns (lines 65, 72, 86):
\* False after the goodbye message, True otherwise.
speak_returns ==
    /\ vstate = "speaking"
    /\ returned' = Some(outcome # "exit")
    /\ vstate' = "returned"
    /\ UNCHANGED <<config, first_run, processor, user_question, spoken, asked,
                   outcome>>

\* Ctrl+C inside the try block of listen_and_respond: while it records,
\* prints, waits for process_question or for the speech engine (line 88).
keyboard_interrupt ==
    /\ vstate \in {"ready", "heard", "processing", "speaking"}
    /\ outcome' = "interrupt"
    /\ vstate' = "interrupted"
    /\ IF vstate = "processing"
       THEN \E calls \in CallsCutShort : dc_calls' = calls
       ELSE UNCHANGED dc_calls
    /\ UNCHANGED <<config, first_run, processor_but_calls, user_question, spoken,
                   asked, returned>>

\* The except KeyboardInterrupt clause runs to its return (lines 89-90).
interrupt_returns ==
    /\ vstate = "interrupted"
    /\ returned' = Some(FALSE)
    /\ vstate' = "returned"
    /\ UNCHANGED <<config, first_run, processor, user_question, spoken, asked,
                   outcome>>

\* Any other exception inside the try block (line 91): a print of
\* listen_and_respond, of record_audio before its try, of tts.speak before
\* its try, or of the except branch of process_question (qa_processor.py,
\* lines 75-76) fails.  process_question is abandoned where it stood.
other_exception ==
    /\ \/ vstate \in {"ready", "heard", "speaking"}
       \/ vstate = "processing" /\ pc \in {"except", "returned"}
    /\ outcome' = "exception"
    /\ vstate' = "handling"
    /\ UNCHANGED <<config, first_run, processor, user_question, spoken, asked,
                   returned>>

\* The except Exception clause prints and hands its message to tts.speak
\* (lines 92-94).
apologise ==
    /\ vstate = "handling"
    /\ spoken' = Append(spoken, SorryErrorMsg)
    /\ vstate' = "apologising"
    /\ UNCHANGED <<config, first_run, processor, user_question, asked, returned,
                   outcome>>

\* tts.speak has returned and the except Exception clause returns True
\* (lines 94-95).
exception_returns ==
    /\ vstate = "apologising"
    /\ returned' = Some(TRUE)
    /\ vstate' = "returned"
    /\ UNCHANGED <<config, first_run, processor, user_question, spoken, asked,
                   outcome>>

\* Ctrl+C inside an except clause of listen_and_respond (lines 89, 92-94):
\* the KeyboardInterrupt leaves listen_and_respond, which returns nothing,
\* and the except clause of run_interactive_mode ends the loop (line 114).
handler_interrupted ==
    /\ vstate \in {"interrupted", "handling", "apologising"}
    /\ vstate' = "ended"
    /\ UNCHANGED <<config, first_run, processor, user_question, spoken, asked,
                   returned, outcome>>

\* A print fails inside an except clause of listen_and_respond (lines 89,
\* 93, or tts.speak before its try): the exception leaves listen_and_respond
\* and run_interactive_mode, which catches KeyboardInterrupt only.
handler_raises ==
    /\ vstate \in {"interrupted", "handling", "apologising"}
    /\ vstate' = "crashed"
    /\ UNCHANGED <<config, first_run, processor, user_question, spoken, asked,
                   returned, outcome>>

\* The loop of run_interactive_mode (lines 106-112): False breaks it, True
\* starts the next listen_and_respond; the call of process_question is over.
next_round ==
    /\ vstate = "returned"
    /\ IF returned = Some(TRUE)
       THEN /\ vstate' = "ready"
            /\ user_question' = ""
            /\ spoken' = << >>
            /\ asked' = << >>
            /\ returned' = None
            /\ outcome' = ""
            /\ pc' = "idle"
            /\ dstate' = "Idle"
            /\ question' = ""
            /\ response' = NoChoices
            /\ messages' = << >>
            /\ idx' = 0
            /\ requests' = << >>
            /\ replies' = << >>
            /\ dc_calls' = << >>
            /\ answer' = None
       ELSE /\ vstate' = "ended"
            /\ UNCHANGED <<user_question, spoken, asked, returned, outcome,
                           processor>>
    /\ UNCHANGED <<config, first_run>>

\* run_interactive_mode stands outside listen_and_respond: before the first
\* round or after a round that returned True.
InLoop == vstate = "main" \/ (vstate = "returned" /\ returned = Some(TRUE))

\* Ctrl+C in the loop outside listen_and_respond (the print of line 107, the
\* sleep of line 112): the except clause of line 114 ends the loop and
\* run_interactive_mode returns.
loop_interrupted ==
    /\ InLoop
    /\ vstate' = "ended"
    /\ UNCHANGED <<config, first_run, processor, user_question, spoken, asked,
                   returned, outcome>>

\* run_interactive_mode is left by an exception: a print fails (lines
\* 99-103, 107, 115), Ctrl+C arrives before the try (lines 99-103) or inside
\* its except clause (line 115).
loop_raises ==
    /\ InLoop
    /\ vstate' = "crashed"
    /\ UNCHANGED <<config, first_run, processor, user_question, spoken, asked,
                   returned, outcome>>

\* main, choice 2 (line 172): test_components speaks its sentence and calls
\* process_question with its question (lines 119-127).
test_components ==
    /\ vstate = "main"
    /\ spoken' = Append(spoken, TtsTestSentence)
    /\ asked' = Append(asked, TestQuestion)
    /\ vstate' = "testing"
    /\ UNCHANGED <<config, first_run, processor, user_question, returned, outcome>>

\* test_components hands the answer to tts.speak as it is (lines 128-129).
test_speak ==
    /\ vstate = "testing"
    /\ pc = "returned"
    /\ spoken' = Append(spoken, answer[1])
    /\ vstate' = "test_recording"
    /\ UNCHANGED <<config, first_run, processor, user_question, asked, returned,
                   outcome>>

\* test_components records once and returns (lines 132-137).
test_record(heard) ==
    /\ vstate = "test_recording"
    /\ user_question' = heard
    /\ vstate' = "tested"
    /\ UNCHANGED <<config, first_run, processor, spoken, asked, returned, outcome>>

\* Ctrl+C or a failing print leaves test_components, which has no except
\* clause, by an exception: before or while it speaks its sentence (lines
\* 119-126), while process_question runs (line 127), before or while it
\* speaks the answer (lines 128-129), and before or after it has recorded
\* (lines 132-137).
test_components_raises ==
    /\ vstate \in {"main", "testing", "test_recording"}
    /\ vstate' = "test_failed"
    /\ IF vstate = "main"
       THEN spoken' \in {spoken, Append(spoken, TtsTestSentence)}
       ELSE UNCHANGED spoken
    /\ IF vstate = "testing"
       THEN \E calls \in CallsCutShort : dc_calls' = calls
       ELSE UNCHANGED dc_calls
    /\ IF vstate = "test_recording"
       THEN user_question' \in {user_question} \cup Transcriptions
       ELSE UNCHANGED user_question
    /\ UNCHANGED <<config, first_run, processor_but_calls, asked, returned,
                   outcome>>

\* The question process_question is called with.
VoiceQuestion == IF vstate = "testing" THEN TestQuestion ELSE user_question

InProcessor == vstate \in {"processing", "testing"}

NextVoice ==
    \/ run_interactive_mode
    \/ \E heard \in Transcriptions : listen(heard)
    \/ check_question
    \/ InProcessor /\ process_question(VoiceQuestion)
    \/ InProcessor /\ \E r \in VoiceDecideResponses : decide_response(r)
    \/ InProcessor /\ \E net \in PrintNets : execute_tool_call(net)
    \/ InProcessor /\ send_synthesize
    \/ InProcessor /\ \E r \in VoiceSynthesizeResponses : synthesize_response(r)
    \/ InProcessor /\ except_fallback
    \/ respond
    \/ speak_returns
    \/ keyboard_interrupt
    \/ interrupt_returns
    \/ other_exception
    \/ apologise
    \/ exception_returns
    \/ handler_interrupted
    \/ handler_raises
    \/ next_round
    \/ loop_interrupted
    \/ loop_raises
    \/ test_components
    \/ test_speak
    \/ \E heard \in Transcriptions : test_record(heard)
    \/ test_components_raises

SpecVoice == Init /\ [][NextVoice]_vars

(***************************************************************************)
(* Vocabulary of the properties.                                           *)
(***************************************************************************)
\* s is empty or holds whitespace only.
IsBlank(s) == \A i \in 1..Len(s) : Char(s, i) \in Whitespace

\* a is t without its leading and trailing whitespace.
IsTrimOf(a, t) ==
    /\ a = "" \/ (Char(a, 1) \notin Whitespace /\ Char(a, Len(a)) \notin Whitespace)
    /\ \E i \in 1..(Len(t) + 1) :
          /\ IsBlank(SubSeq(t, 1, i - 1))
          /\ SubSeq(t, i, i + Len(a) - 1) = a
          /\ IsBlank(SubSeq(t, i + Len(a), Len(t)))

Last(seq) == seq[Len(seq)]

\* The reasoning service failed to answer the request: it was unreachable,
\* or its response has no choices, or its message has no tool calls to run
\* and no text either.
ServiceFailed(r, phase) ==
    \/ r.kind \in {"raise", "malformed"}
    \/ r.content = None /\ (phase = "synthesize" \/ r.tool_calls = << >>)

\* The phase of the latest reply.
ReplyPhase == IF Len(replies) = 1 THEN "decide" ELSE "synthesize"

\* The latest reply is a text that is empty once trimmed.
EmptyTextReply ==
    /\ replies # << >>
    /\ ~ServiceFailed(Last(replies), ReplyPhase)
    /\ ReplyPhase = "decide" => Last(replies).tool_calls = << >>
    /\ IsBlank(Last(replies).content[1])

(***************************************************************************)
(* C1  For every question that is not blank, whatever the reasoning        *)
(* service and the Data Client do, process_question returns a non-empty    *)
(* string.  (The code returns the empty string when the service's text is  *)
(* blank.)                                                                 *)
(***************************************************************************)
C1_AnswerNonEmpty ==
    (pc = "returned" /\ ~IsBlank(question)) =>
        (answer # None /\ answer[1] # "")

(***************************************************************************)
(* C2  A blank question is answered with the fixed "I didn't hear          *)
(* anything" message, and no request to the reasoning service, no          *)
(* Dispatcher step and no Data Client operation happens for it, with or    *)
(* without a reasoning service configured.                                 *)
(***************************************************************************)
C2_BlankQuestion ==
    IsBlank(question) =>
        /\ requests = << >>
        /\ replies = << >>
        /\ dc_calls = << >>
        /\ dstate = "Idle"
        /\ pc \in {"idle", "returned"}
        /\ pc = "returned" => answer = Some(DidntHearReply)

C2_Witness ==
    /\ pc = "returned"
    /\ question = " \t "
    /\ use_openai
    /\ answer = Some(DidntHearReply)

(***************************************************************************)
(* C3  With a reasoning service configured, a failure of the service at    *)
(* the decide or at the synthesize phase puts the Dispatcher in Error and  *)
(* the exception in the hands of process_question, whose answer is then    *)
(* the Fallback Responder's answer to the same question; so it is after    *)
(* every error of the Dispatcher.                                          *)
(***************************************************************************)
C3_ServiceFailureFallsBack ==
    /\ (replies # << >> /\ ServiceFailed(Last(replies), ReplyPhase)) =>
          /\ use_openai
          /\ dstate = "Error"
          /\ Len(requests) = Len(replies)
    /\ dstate = "Error" =>
          /\ pc \in {"except", "returned"}
          /\ pc = "except" => answer = None
          /\ pc = "returned" => answer = Some(get_fallback_response(question))

C3_Witness ==
    /\ pc = "returned"
    /\ Len(replies) = 2
    /\ replies[2].kind = "raise"
    /\ question = "hello"
    /\ answer = Some(fallback_responses[1].response)

(***************************************************************************)
(* C4  Without a reasoning service, the answer to a question that is not   *)
(* blank is the Fallback Responder's (for "hello", the reply registered    *)
(* for "hello"), and nothing is requested of the reasoning service or of   *)
(* the Data Client.                                                        *)
(***************************************************************************)
C4_UnconfiguredUsesFallback ==
    ~use_openai =>
        /\ requests = << >>
        /\ dc_calls = << >>
        /\ dstate = "Idle"
        /\ (pc = "returned" /\ ~IsBlank(question)) =>
              answer = Some(get_fallback_response(question))
        /\ (pc = "returned" /\ question = "hello") =>
              answer = Some("Hello! I'm your voice assistant. I can help with LeetCode problems and general questions!")

C4_Witness ==
    /\ ~use_openai
    /\ pc = "returned"
    /\ question = "hello"

(***************************************************************************)
(* C5  When the Dispatcher ends without error but with a text that is      *)
(* blank, process_question answers with the Fallback Responder's answer.   *)
(* (The code returns the empty text.)                                      *)
(***************************************************************************)
C5_EmptyTextFallsBack ==
    (pc = "returned" /\ EmptyTextReply) =>
        answer = Some(get_fallback_response(question))

(***************************************************************************)
(* C6  For one question the decide request is sent at most once and the    *)
(* synthesize request at most once, in that order; once the synthesize     *)
(* response is in, the Dispatcher is over (no tool is run for it, no       *)
(* request follows), and no request follows a failure of the service.      *)
(***************************************************************************)
C6_AtMostTwoRoundTrips ==
    /\ Len(requests) <= 2
    /\ Len(replies) <= Len(requests)
    /\ Len(requests) >= 1 => requests[1].phase = "decide"
    /\ Len(requests) = 2 => requests[2].phase = "synthesize"
    /\ Len(replies) = 2 =>
          /\ dstate \in {"Done", "Error"}
          /\ pc \in {"except", "returned"}
          /\ Len(messages) = 3 + Len(replies[1].tool_calls)
          /\ Len(dc_calls) <= Len(replies[1].tool_calls)
          /\ response = replies[1]
    /\ (replies # << >> /\ ServiceFailed(Last(replies), ReplyPhase)) =>
          Len(requests) = Len(replies)

C6_Witness ==
    /\ pc = "returned"
    /\ Len(replies) = 2
    /\ replies[2].tool_calls # << >>
    /\ dc_calls # << >>

(***************************************************************************)
(* C7  The Dispatcher moves only along Idle -> AwaitingDecision ->         *)
(* {Done | ExecutingTools -> AwaitingSynthesis -> Done}; Error is entered  *)
(* only from AwaitingDecision or AwaitingSynthesis; Done and Error are     *)
(* left only when the invocation is over.  (The code enters Error from     *)
(* ExecutingTools when the arguments of a tool call are not JSON.)         *)
(***************************************************************************)
DispatcherTransitions ==
    { <<"Idle", "AwaitingDecision">>,
      <<"AwaitingDecision", "Done">>,
      <<"AwaitingDecision", "ExecutingTools">>,
      <<"ExecutingTools", "AwaitingSynthesis">>,
      <<"AwaitingSynthesis", "Done">>,
      <<"AwaitingDecision", "Error">>,
      <<"AwaitingSynthesis", "Error">> }

C7_DispatcherStateMachine ==
    [][ dstate' # dstate =>
            \/ <<dstate, dstate'>> \in DispatcherTransitions
            \/ dstate \in {"Done", "Error"} /\ dstate' = "Idle" /\ pc' = "idle"
      ]_vars

(***************************************************************************)
(* C8  A decide response with a text and no tool calls ends the            *)
(* Dispatcher: the text is returned trimmed, after one request to the      *)
(* reasoning service and no Data Client operation.                         *)
(***************************************************************************)
C8_DirectText ==
    (/\ replies # << >>
     /\ ~ServiceFailed(replies[1], "decide")
     /\ replies[1].tool_calls = << >>) =>
        /\ pc = "returned"
        /\ dstate = "Done"
        /\ answer # None
        /\ IsTrimOf(answer[1], replies[1].content[1])
        /\ Len(requests) = 1
        /\ Len(replies) = 1
        /\ dc_calls = << >>

C8_Witness ==
    /\ pc = "returned"
    /\ replies = <<Message(Some("  Two Sum is Easy.\n"), << >>)>>
    /\ answer = Some("Two Sum is Easy.")

(***************************************************************************)
(* C9  When the decide response carries tool calls and the synthesize      *)
(* response a text, process_question returns that text trimmed, whether    *)
(* the tool calls succeeded or failed.                                     *)
(***************************************************************************)
C9_SynthesizedText ==
    (Len(replies) = 2 /\ ~ServiceFailed(replies[2], "synthesize")) =>
        /\ replies[1].tool_calls # << >>
        /\ pc = "returned"
        /\ dstate = "Done"
        /\ answer # None
        /\ IsTrimOf(answer[1], replies[2].content[1])

C9_Witness ==
    /\ pc = "returned"
    /\ Len(replies) = 2
    /\ Len(messages) = 5
    /\ dc_calls # << >>
    /\ IsErrorContent(messages[4].content)
    /\ ~IsErrorContent(messages[5].content)
    /\ replies[2].content = Some("  Two Sum is Easy.\n")
    /\ answer = Some("Two Sum is Easy.")

(***************************************************************************)
(* C10  A tool call that fails (unknown name, missing required argument,   *)
(* Data Client failure) only gets an error or empty result of its own:     *)
(* every executed call has one tool turn under its own id, the loop goes   *)
(* on to the next call, the synthesize request is sent with a turn for     *)
(* every call, and process_question returns text.  The one thing that      *)
(* stops the loop is a call whose arguments are not JSON, which is none    *)
(* of these failures.                                                      *)
(* Checked under SpecTools.                                                *)
(***************************************************************************)
\* The loop stands at a call whose arguments json.loads rejects.
AtUnparsableCall ==
    /\ idx \in 1..Len(response.tool_calls)
    /\ ~json_loads(response.tool_calls[idx].arguments).ok

C10_ToolFailureIsolated ==
    LET tcs == response.tool_calls
    IN  tcs # << >> =>
          /\ Len(messages) = 3 + (idx - 1)
          /\ \A k \in 1..Len(tcs) :
                k < idx => /\ messages[3 + k].role = "tool"
                           /\ messages[3 + k].tool_call_id = tcs[k].id
          /\ dstate = "Error" => (Len(replies) = 2 \/ AtUnparsableCall)
          /\ (pc \in {"except", "returned"} /\ Len(requests) < 2) => AtUnparsableCall
          /\ Len(requests) = 2 =>
                /\ idx = Len(tcs) + 1
                /\ requests[2].messages = messages
          /\ pc = "returned" => answer # None

C10_Witness ==
    /\ pc = "returned"
    /\ Len(response.tool_calls) = 2
    /\ response.tool_calls[1].name = "delete_account"
    /\ Len(dc_calls) = 1
    /\ dc_calls[1].net = "ok"
    /\ messages[4].content = json_dumps(ErrorResult(UnknownFunctionError("delete_account")))
    /\ ~IsErrorContent(messages[5].content)
    /\ answer = Some("Two Sum is Easy.")

(***************************************************************************)
(* Vocabulary of the tool turns.                                           *)
(***************************************************************************)
\* The tool turns of a conversation, in order.
ToolTurns(msgs) == SelectSeq(msgs, LAMBDA m : m.role = "tool")

\* The Data Client invocations made for the tool call `id`.
CallsFor(id) == SelectSeq(dc_calls, LAMBDA c : c.id = id)

\* The content that tool call tc gets when the HTTP exchange does `net`.
ContentOf(tc, net) ==
    json_dumps(call_function(tc.name, json_loads(tc.arguments).value, net).result)

(***************************************************************************)
(* C11  The conversation of the synthesize request holds exactly one tool  *)
(* turn per tool call of the decide response, the k-th under the id of the *)
(* k-th call and with the result of that call: no id is missing, doubled   *)
(* or paired with the result of another call.                              *)
(* Checked under SpecTools.                                                *)
(***************************************************************************)
C11_OneTurnPerCall ==
    Len(requests) = 2 =>
        LET tcs == replies[1].tool_calls
            turns == ToolTurns(requests[2].messages)
        IN  /\ Len(turns) = Len(tcs)
            /\ \A k \in 1..Len(tcs) :
                  /\ turns[k].tool_call_id = tcs[k].id
                  /\ \A j \in 1..Len(turns) :
                        turns[j].tool_call_id = tcs[k].id => j = k
                  /\ \E net \in NetOutcomes : turns[k].content = ContentOf(tcs[k], net)
                  /\ CallsFor(tcs[k].id) # << >> =>
                        turns[k].content = ContentOf(tcs[k], CallsFor(tcs[k].id)[1].net)

C11_Witness ==
    /\ Len(requests) = 2
    /\ Len(replies[1].tool_calls) = 2
    /\ ToolTurns(requests[2].messages)[1].content
          # ToolTurns(requests[2].messages)[2].content
    /\ Len(dc_calls) = 2
    /\ dc_calls[1].net = "fail"
    /\ dc_calls[2].net = "ok"

(***************************************************************************)
(* C12  A tool call whose name is not one of the declared tools invokes    *)
(* no Data Client operation and gets, under its id, the error payload      *)
(* {"error": "Unknown function: <name>"}; the synthesize request carries   *)
(* it and process_question returns text.                                   *)
(* Checked under SpecTools.                                                *)
(***************************************************************************)
DeclaredNames == { functions[k] : k \in 1..Len(functions) }

\* The tool turn of the k-th tool call, once the call has been executed.
TurnOf(k) == messages[3 + k]

C12_UnknownTool ==
    LET tcs == response.tool_calls
    IN  \A k \in 1..Len(tcs) :
           tcs[k].name \notin DeclaredNames =>
              /\ CallsFor(tcs[k].id) = << >>
              /\ k < idx =>
                    TurnOf(k) = [role |-> "tool", tool_call_id |-> tcs[k].id,
                                 content |-> "{\"error\": \"Unknown function: "
                                             \o tcs[k].name \o "\"}"]
              /\ Len(requests) = 2 => requests[2].messages[3 + k] = TurnOf(k)
              /\ pc = "returned" => answer # None

\* The payload as the specification words it.
C12_UnknownToolAsSpecified ==
    LET tcs == response.tool_calls
    IN  \A k \in 1..Len(tcs) :
           (tcs[k].name \notin DeclaredNames /\ k < idx) =>
              /\ CallsFor(tcs[k].id) = << >>
              /\ TurnOf(k).tool_call_id = tcs[k].id
              /\ TurnOf(k).content = "{\"error\": \"unknown tool\"}"

C12_Witness ==
    /\ pc = "returned"
    /\ Len(requests) = 2
    /\ Len(response.tool_calls) = 2
    /\ response.tool_calls[2].name = "delete_account"
    /\ TurnOf(2).content = "{\"error\": \"Unknown function: delete_account\"}"
    /\ Len(dc_calls) = 1
    /\ answer = Some("Two Sum is Easy.")

(***************************************************************************)
(* C13  (under SpecTools) As the specification has it: when no default     *)
(* identity is configured and a user-profile or recent-submissions tool    *)
(* call carries no username argument, the tool turn of the call is         *)
(* {"error": "no username available"} and the Data Client is not invoked   *)
(* for it.  No default identity is configured when LEETCODE_USERNAME is    *)
(* unset, which leaves default_username at the name built into line 34,    *)
(* when it is empty, and when default_username was never assigned.         *)
(***************************************************************************)
UsernameTools == {"get_user_profile", "get_recent_submissions"}

\* The k-th tool call is for a username tool and has parsed arguments
\* without a username.
OmitsUsername(tc) ==
    /\ tc.name \in UsernameTools
    /\ json_loads(tc.arguments).ok
    /\ ~DictHas(json_loads(tc.arguments).value, "username")

\* os.getenv('LEETCODE_USERNAME', 'dviresh1993') (line 34) when the variable
\* is unset.
BuiltInUsername == "dviresh1993"

NoIdentityConfigured == default_username \in {"", BuiltInUsername}

C13_NoUsernameAsSpecified ==
    LET tcs == response.tool_calls
    IN  \A k \in 1..Len(tcs) :
           (NoIdentityConfigured /\ OmitsUsername(tcs[k]) /\ k < idx) =>
              /\ CallsFor(tcs[k].id) = << >>
              /\ TurnOf(k).content = "{\"error\": \"no username available\"}"

(***************************************************************************)
(* C14  Every Data Client invocation serves one tool call and gets that    *)
(* call's arguments: a supplied argument unchanged, an omitted username    *)
(* as the default identity, an omitted search limit as 5, an omitted       *)
(* recent-submissions limit as 10.                                         *)
(* Checked under SpecTools.                                                *)
(***************************************************************************)
\* The tool call of the decide response that carries the id.
CallWithId(id) ==
    LET tcs == response.tool_calls
    IN  tcs[CHOOSE k \in 1..Len(tcs) : tcs[k].id = id]

Supplied(args, key, omitted) == IF DictHas(args, key) THEN DictAt(args, key) ELSE omitted

C14_DefaultsSubstituted ==
    /\ \A k \in 1..Len(response.tool_calls) : Len(CallsFor(response.tool_calls[k].id)) <= 1
    /\ \A n \in 1..Len(dc_calls) :
          LET c == dc_calls[n]
              tc == CallWithId(c.id)
              args == json_loads(tc.arguments).value
          IN  /\ c.op = tc.name
              /\ c.op = "get_problem" => c.title_slug = DictAt(args, "title_slug")
              /\ c.op = "search_problems" =>
                    /\ c.keywords = Supplied(args, "keywords", "")
                    /\ c.difficulty = Supplied(args, "difficulty", "")
                    /\ c.limit = Supplied(args, "limit", 5)
              /\ c.op = "get_user_profile" =>
                    c.username = Supplied(args, "username", default_username)
              /\ c.op = "get_recent_submissions" =>
                    /\ c.username = Supplied(args, "username", default_username)
                    /\ c.limit = Supplied(args, "limit", 10)

\* The reply asks for a search without a limit and for the submissions of a
\* named user with a limit.
C14_Witness ==
    /\ Len(dc_calls) = 2
    /\ dc_calls[1].op = "search_problems"
    /\ response.tool_calls[1].arguments = ArgKeywords
    /\ dc_calls[1].limit = 5
    /\ dc_calls[1].keywords = "tree"
    /\ dc_calls[2].op = "get_recent_submissions"
    /\ response.tool_calls[2].arguments = ArgUser
    /\ dc_calls[2].username = "alice"
    /\ dc_calls[2].limit = 3
    /\ default_username = "dviresh1993"

(***************************************************************************)
(* C15  The synthesize request is sent after the decide response, when     *)
(* every tool call of that response has its result; its conversation holds *)
(* the question, the assistant message of the decide response with its     *)
(* tool calls, and one tool turn per tool call under the call's id,        *)
(* error results included.                                                 *)
(***************************************************************************)
C15_SynthesizeConversation ==
    Len(requests) = 2 =>
        LET msgs == requests[2].messages
            tcs == replies[1].tool_calls
        IN  /\ requests[1].phase = "decide"
            /\ requests[2].phase = "synthesize"
            /\ replies[1].kind = "message"
            /\ tcs # << >>
            /\ idx = Len(tcs) + 1
            /\ Len(msgs) = 3 + Len(tcs)
            /\ msgs[2] = [role |-> "user", content |-> question]
            /\ msgs[3] = [role |-> "assistant", content |-> replies[1].content,
                          tool_calls |-> tcs]
            /\ \A k \in 1..Len(tcs) :
                  /\ msgs[3 + k].role = "tool"
                  /\ msgs[3 + k].tool_call_id = tcs[k].id
                  /\ msgs[3 + k] = messages[3 + k]

\* Sent with an error result and a successful one.
C15_Witness ==
    /\ Len(requests) = 2
    /\ dstate = "AwaitingSynthesis"
    /\ Len(replies) = 1
    /\ Len(replies[1].tool_calls) = 2
    /\ question = " Two Sum? "
    /\ IsErrorContent(requests[2].messages[4].content)
    /\ ~IsErrorContent(requests[2].messages[5].content)
    /\ Len(dc_calls) = 1
    /\ dc_calls[1].net = "ok"

(***************************************************************************)
(* C16  When the Data Client operation invoked for a tool call fails (a    *)
(* transport error, an HTTP error status, a malformed reply), the tool     *)
(* turn recorded under that call's id carries an error payload             *)
(* {"error": <message>}.                                                   *)
(***************************************************************************)
\* The position in the decide response of the tool call that carries the id.
IndexOfId(id) ==
    CHOOSE k \in 1..Len(response.tool_calls) : response.tool_calls[k].id = id

C16_ClientFailureCarriesError ==
    \A n \in 1..Len(dc_calls) :
        dc_calls[n].net = "fail" =>
            IsErrorContent(TurnOf(IndexOfId(dc_calls[n].id)).content)

(***************************************************************************)
(* C17  (under SpecTimed) When the Data Client invocation of a tool call   *)
(* runs into its timeout, the tool turn recorded under that call's id is   *)
(* {"error": "timeout"}; the other tool calls keep their own results and   *)
(* the synthesize request is still sent.                                   *)
(***************************************************************************)
TimedOut(k) ==
    \E n \in 1..Len(dc_calls) :
        /\ dc_calls[n].id = response.tool_calls[k].id
        /\ dc_calls[n].net = "timeout"

C17_TimeoutCarriesTimeoutError ==
    \A k \in 1..Len(response.tool_calls) :
        IF k < idx /\ TimedOut(k)
        THEN TurnOf(k).content = "{\"error\": \"timeout\"}"
        ELSE k < idx => TurnOf(k).content = ContentOf(response.tool_calls[k], "ok")

(***************************************************************************)
(* C18  (under SpecFallback) For every question, _get_fallback_response    *)
(* returns one of its canned replies, which is not empty, and sends        *)
(* nothing to the reasoning service and invokes no Data Client operation.  *)
(***************************************************************************)
CannedReplies ==
    { fallback_responses[k].response : k \in 1..Len(fallback_responses) }
        \cup {ReliableSourcesReply, ComplexCalculationsReply, NeedAIReply}

C18_FallbackTotal ==
    /\ requests = << >>
    /\ replies = << >>
    /\ dc_calls = << >>
    /\ pc = "returned" =>
          /\ answer # None
          /\ answer[1] # ""
          /\ answer[1] \in CannedReplies

\* The empty question has its reply too.
C18_Witness ==
    /\ pc = "returned"
    /\ question = ""
    /\ answer = Some("I'm sorry, I need my AI capabilities to answer that properly. Please check your OpenAI API configuration.")

(***************************************************************************)
(* C19  (under SpecFallback) The reply is that of the first trigger, in    *)
(* the order hello, hi, how are you, what is your name, goodbye, bye,      *)
(* thank you, thanks, that the lower-cased, trimmed question contains as   *)
(* a substring, wherever the triggers stand in the question.               *)
(***************************************************************************)
TriggerOrder == <<"hello", "hi", "how are you", "what is your name", "goodbye",
                  "bye", "thank you", "thanks">>

\* The reply registered for a trigger.
ReplyOf(key) ==
    fallback_responses[CHOOSE k \in 1..Len(fallback_responses) :
                           fallback_responses[k].key = key].response

C19_FirstRegisteredTriggerWins ==
    pc = "returned" =>
        LET question_lower == Strip(Lower(question))
        IN  \A k \in 1..Len(TriggerOrder) :
               (/\ Contains(TriggerOrder[k], question_lower)
                /\ \A j \in 1..(k - 1) : ~Contains(TriggerOrder[j], question_lower))
                  => answer = Some(ReplyOf(TriggerOrder[k]))

\* "goodbye" holds the triggers goodbye and bye, "hello" comes after it in
\* the question and before it in the registry.
C19_Witness ==
    /\ pc = "returned"
    /\ question = "goodbye hello"
    /\ answer = Some("Hello! I'm your voice assistant. I can help with LeetCode problems and general questions!")

(***************************************************************************)
(* C20  (under SpecFallback) When the question contains no trigger, the    *)
(* reply is the "reliable sources" one if the question contains what, how, *)
(* why, when, where or who (as a substring of its lower-cased text),       *)
(* otherwise the "complex calculations" one if it contains calculate,      *)
(* math, plus or minus, otherwise the "need AI capabilities" one; with a   *)
(* trigger in the question none of the three is returned.                  *)
(***************************************************************************)
HasTrigger(text) == \E k \in 1..Len(TriggerOrder) : Contains(TriggerOrder[k], text)
HasInterrogative(text) ==
    \E w \in {"what", "how", "why", "when", "where", "who"} : Contains(w, text)
HasArithmetic(text) ==
    \E w \in {"calculate", "math", "plus", "minus"} : Contains(w, text)

C20_CategoryReplies ==
    pc = "returned" =>
        LET question_lower == Strip(Lower(question))
        IN  IF HasTrigger(question_lower)
            THEN answer[1] \notin {ReliableSourcesReply, ComplexCalculationsReply,
                                   NeedAIReply}
            ELSE answer = Some(IF HasInterrogative(question_lower)
                               THEN ReliableSourcesReply
                               ELSE IF HasArithmetic(question_lower)
                               THEN ComplexCalculationsReply
                               ELSE NeedAIReply)

\* An arithmetic word, then an interrogative one, no trigger.
C20_Witness ==
    /\ pc = "returned"
    /\ question = "Calculate Why"
    /\ answer = Some("That's an interesting question! I'd recommend checking reliable sources for detailed information on this topic.")

(***************************************************************************)
(* C21  (under SpecReplay) A call of process_question starts from nothing: *)
(* its decide request holds the system prompt and its own question only.   *)
(* Called a second time on the script of the first call, it sends the same *)
(* requests in the same order and returns the same text.                   *)
(***************************************************************************)
IsPrefix(a, b) == Len(a) <= Len(b) /\ \A i \in 1..Len(a) : a[i] = b[i]

C21_NoCrossCallState ==
    /\ pc = "idle" => (messages = << >> /\ requests = << >> /\ dc_calls = << >>)
    /\ Len(requests) >= 1 =>
          requests[1].messages =
             << [role |-> "system", content |-> DecideSystemPrompt],
                [role |-> "user", content |-> question] >>
    /\ first_run # None =>
          /\ IsPrefix(requests, first_run[1].requests)
          /\ pc = "returned" =>
                /\ question = first_run[1].question
                /\ answer = first_run[1].answer
                /\ requests = first_run[1].requests
                /\ replies = first_run[1].replies

\* The second call has returned after two requests and two Data Client
\* invocations, one of them failed.
C21_Witness ==
    /\ first_run # None
    /\ pc = "returned"
    /\ Len(requests) = 2
    /\ Len(dc_calls) = 2
    /\ dc_calls[1].net = "fail"
    /\ dc_calls[2].net = "ok"
    /\ dc_calls[1].op = "get_user_profile"
    /\ answer = Some("Two Sum is Easy.")

(***************************************************************************)
(* C22  (under SpecPrints) As the claim has it: every Data Client          *)
(* invocation returns to the Dispatcher, never raises into it: its result  *)
(* is recorded as the tool turn of its call and is no error caught by the  *)
(* Dispatcher; when the HTTP exchange fails or brings no data the result   *)
(* is the empty dict, serialized "{}".                                     *)
(***************************************************************************)
C22_ClientNeverRaises ==
    \A n \in 1..Len(dc_calls) :
        LET k == IndexOfId(dc_calls[n].id)
        IN  /\ k < idx
            /\ TurnOf(k).role = "tool"
            /\ TurnOf(k).tool_call_id = dc_calls[n].id
            /\ ~IsErrorContent(TurnOf(k).content)
            /\ dc_calls[n].net # "ok" => TurnOf(k).content = "{}"
            /\ dc_calls[n].net = "ok" => TurnOf(k).content # "{}"

(***************************************************************************)
(* C23  (under SpecTools) The tool calls of a decide response are executed *)
(* one at a time in the order of the response: while the loop is at call   *)
(* idx, exactly the calls before idx have their tool turn, in that order,  *)
(* the Data Client has been invoked for calls before idx only and in that  *)
(* order, and the synthesize request carries the tool turns in the same    *)
(* order.                                                                  *)
(***************************************************************************)
C23_InOrder ==
    LET tcs == response.tool_calls
    IN  /\ dstate \in {"ExecutingTools", "AwaitingSynthesis"} =>
              /\ idx \in 1..(Len(tcs) + 1)
              /\ Len(messages) = 3 + (idx - 1)
              /\ \A k \in 1..(idx - 1) :
                    /\ messages[3 + k].role = "tool"
                    /\ messages[3 + k].tool_call_id = tcs[k].id
        /\ \A n \in 1..Len(dc_calls) :
              /\ IndexOfId(dc_calls[n].id) < idx
              /\ \A m \in 1..(n - 1) :
                    IndexOfId(dc_calls[m].id) < IndexOfId(dc_calls[n].id)
        /\ Len(requests) = 2 =>
              \A k \in 1..Len(tcs) :
                  requests[2].messages[3 + k].tool_call_id = tcs[k].id

\* Between the two calls of a response: the first has its result, the
\* second has not been started.
C23_Witness ==
    /\ dstate = "ExecutingTools"
    /\ Len(response.tool_calls) = 2
    /\ response.tool_calls[1].name = "search_problems"
    /\ response.tool_calls[2].name = "get_problem"
    /\ idx = 2
    /\ Len(messages) = 4
    /\ Len(dc_calls) = 1
    /\ dc_calls[1].id = "call_1"

(***************************************************************************)
(* C24  (under SpecTools) Every decide request advertises the same five    *)
(* tool declarations, their names pairwise distinct, and the dispatch      *)
(* agrees with them: the result of an executed tool call is the "Unknown   *)
(* function" error if and only if the name of the call is not an           *)
(* advertised one.                                                         *)
(***************************************************************************)
UnknownFunctionPrefix == "{\"error\": \"Unknown function: "

IsUnknownFunctionContent(content) ==
    /\ Len(content) >= Len(UnknownFunctionPrefix)
    /\ SubSeq(content, 1, Len(UnknownFunctionPrefix)) = UnknownFunctionPrefix

C24_RegistryAgreesWithDispatch ==
    Len(requests) >= 1 =>
        LET tools == requests[1].tools
            tcs == response.tool_calls
        IN  /\ tools = <<"get_daily_challenge", "get_problem", "search_problems",
                         "get_user_profile", "get_recent_submissions">>
            /\ Len(tools) = 5
            /\ \A i, j \in 1..Len(tools) : tools[i] = tools[j] => i = j
            /\ \A k \in 1..Len(tcs) :
                  k < idx =>
                     (IsUnknownFunctionContent(TurnOf(k).content)
                        <=> \A i \in 1..Len(tools) : tcs[k].name # tools[i])

\* An unadvertised name and an advertised one whose call fails otherwise.
C24_Witness ==
    /\ Len(requests) = 2
    /\ Len(response.tool_calls) = 2
    /\ response.tool_calls[1].name = "delete_account"
    /\ IsUnknownFunctionContent(TurnOf(1).content)
    /\ response.tool_calls[2].name = "get_problem"
    /\ IsErrorContent(TurnOf(2).content)
    /\ ~IsUnknownFunctionContent(TurnOf(2).content)

(***************************************************************************)
(* C25  (under SpecReplay) Answering changes nothing of the routing: the   *)
(* second call finds use_openai as the first call found it, and with a     *)
(* reasoning service configured a question that is not blank has its       *)
(* decide request sent before anything is answered, also when the first    *)
(* call ended in the fallback after a Dispatcher failure.                  *)
(***************************************************************************)
C25_RoutingFixed ==
    /\ first_run # None => use_openai = first_run[1].use_openai
    /\ (\/ use_openai
        \/ first_run # None /\ first_run[1].use_openai)
       /\ pc # "idle" /\ ~IsBlank(question)
          => /\ Len(requests) >= 1
             /\ requests[1] = DecideRequest(question)
    /\ ~use_openai => requests = << >>

\* The first call failed at its decide request and answered with the
\* fallback; the second call has sent its own decide request.
C25_Witness ==
    /\ first_run # None
    /\ first_run[1].use_openai
    /\ first_run[1].replies = <<ApiError>>
    /\ first_run[1].answer = Some(get_fallback_response("hello"))
    /\ question = "hello"
    /\ pc = "dispatcher"
    /\ dstate = "AwaitingDecision"
    /\ Len(requests) = 1

(***************************************************************************)
(* C26  (under SpecTools) When the arguments of a tool call of the decide  *)
(* response do not parse, the Dispatcher fails at the first such call: the *)
(* loop never goes past it, the calls before it have run (their Data       *)
(* Client invocations included), no synthesize request is sent and         *)
(* process_question returns the Fallback Responder's answer.               *)
(***************************************************************************)
Unparsable(tcs) == { k \in 1..Len(tcs) : ~json_loads(tcs[k].arguments).ok }

FirstUnparsable(tcs) ==
    CHOOSE k \in Unparsable(tcs) : \A j \in Unparsable(tcs) : k <= j

C26_UnparsableArgumentsFailDispatcher ==
    LET tcs == response.tool_calls
    IN  Unparsable(tcs) # {} =>
           /\ idx <= FirstUnparsable(tcs)
           /\ Len(messages) <= 3 + (FirstUnparsable(tcs) - 1)
           /\ \A n \in 1..Len(dc_calls) :
                 IndexOfId(dc_calls[n].id) < FirstUnparsable(tcs)
           /\ Len(requests) = 1
           /\ dstate \in {"ExecutingTools", "Error"}
           /\ dstate = "Error" => idx = FirstUnparsable(tcs)
           /\ pc = "returned" =>
                 /\ dstate = "Error"
                 /\ answer = Some(get_fallback_response(question))

\* The first call went to the Data Client, the second did not parse.
C26_Witness ==
    /\ pc = "returned"
    /\ Len(response.tool_calls) = 2
    /\ response.tool_calls[1].name = "get_daily_challenge"
    /\ response.tool_calls[2].arguments = ArgTruncated
    /\ Len(dc_calls) = 1
    /\ dc_calls[1].net = "ok"
    /\ Len(messages) = 4
    /\ Len(requests) = 1
    /\ question = "hello"
    /\ answer = Some("Hello! I'm your voice assistant. I can help with LeetCode problems and general questions!")

(***************************************************************************)
(* C27  (under SpecTools) As the claim has it: a user-profile or           *)
(* recent-submissions tool call whose arguments carry the username ""      *)
(* gets the no-username error and no Data Client invocation, whatever the  *)
(* default identity; the default identity is used when the arguments       *)
(* carry no username at all.  This fails without a Data Client: the error  *)
(* of the call is another one then.                                        *)
(***************************************************************************)
HasEmptyUsername(tc) ==
    /\ tc.name \in UsernameTools
    /\ json_loads(tc.arguments).ok
    /\ DictHas(json_loads(tc.arguments).value, "username")
    /\ DictAt(json_loads(tc.arguments).value, "username") = ""

NoUsernameContent == "{\"error\": \"No username provided and no default username set\"}"

C27_AsSpecified ==
    LET tcs == response.tool_calls
    IN  \A k \in 1..Len(tcs) :
           /\ HasEmptyUsername(tcs[k]) =>
                 /\ CallsFor(tcs[k].id) = << >>
                 /\ k < idx => TurnOf(k).content = NoUsernameContent
           /\ (OmitsUsername(tcs[k]) /\ k < idx /\ default_username # "") =>
                 /\ Len(CallsFor(tcs[k].id)) = 1
                 /\ CallsFor(tcs[k].id)[1].username = default_username

(***************************************************************************)
(* C27  (under SpecTools) A user-profile or recent-submissions tool call   *)
(* whose arguments carry the username "" is never passed to the Data       *)
(* Client, whatever the default identity.  When the Data Client was        *)
(* constructed its tool turn is the no-username error, and the default     *)
(* identity is used when the arguments carry no username at all.  When     *)
(* the construction failed, default_username was never assigned, and the   *)
(* tool turn is the error of reading it: "'QAProcessor' object has no      *)
(* attribute 'default_username'".                                          *)
(***************************************************************************)
C27_EmptyUsernameIsNoUsername ==
    LET tcs == response.tool_calls
    IN  \A k \in 1..Len(tcs) :
           /\ HasEmptyUsername(tcs[k]) =>
                 /\ CallsFor(tcs[k].id) = << >>
                 /\ (k < idx /\ mcp_available) =>
                       TurnOf(k).content = NoUsernameContent
                 /\ (k < idx /\ ~mcp_available) =>
                       TurnOf(k).content =
                          "{\"error\": \"'QAProcessor' object has no attribute 'default_username'\"}"
           /\ (OmitsUsername(tcs[k]) /\ k < idx /\ mcp_available
                 /\ default_username # "") =>
                 /\ Len(CallsFor(tcs[k].id)) = 1
                 /\ CallsFor(tcs[k].id)[1].username = default_username

\* With a default identity configured: the call with the empty username is
\* refused, the call without a username goes out under the default.
C27_Witness ==
    /\ mcp_available
    /\ default_username = "dviresh1993"
    /\ Len(response.tool_calls) = 2
    /\ response.tool_calls[1].name = "get_recent_submissions"
    /\ response.tool_calls[1].arguments = ArgEmptyUser
    /\ response.tool_calls[2].name = "get_user_profile"
    /\ response.tool_calls[2].arguments = ArgNone
    /\ idx = 3
    /\ IsErrorContent(TurnOf(1).content)
    /\ Len(dc_calls) = 1
    /\ dc_calls[1].id = "call_2"
    /\ dc_calls[1].username = "dviresh1993"

(***************************************************************************)
(* C28  (under SpecTools) Without a Data Client (its construction failed)  *)
(* no Data Client operation is invoked and every executed tool call gets   *)
(* an error result under its id; when the loop is through, the synthesize  *)
(* request is sent with one tool turn per tool call, and the Dispatcher    *)
(* fails only where it fails with a Data Client too: at arguments that do  *)
(* not parse or at a failure of the reasoning service.                     *)
(***************************************************************************)
C28_NoClientStillSynthesizes ==
    LET tcs == response.tool_calls
    IN  (~mcp_available /\ tcs # << >>) =>
           /\ dc_calls = << >>
           /\ \A k \in 1..Len(tcs) :
                 k < idx => /\ TurnOf(k).role = "tool"
                            /\ TurnOf(k).tool_call_id = tcs[k].id
                            /\ IsErrorContent(TurnOf(k).content)
           /\ (Unparsable(tcs) = {} /\ dstate # "ExecutingTools") =>
                 /\ Len(requests) = 2
                 /\ Len(ToolTurns(requests[2].messages)) = Len(tcs)
           /\ dstate = "Error" => (AtUnparsableCall \/ Len(replies) = 2)
           /\ (pc = "returned" /\ Len(replies) = 2
                 /\ ~ServiceFailed(replies[2], "synthesize")) =>
                 answer = Some(Strip(replies[2].content[1]))

\* Two declared tools asked for, no client: two error turns, the text of
\* the synthesize response is the answer.
C28_Witness ==
    /\ ~mcp_available
    /\ pc = "returned"
    /\ Len(response.tool_calls) = 2
    /\ response.tool_calls[1].name = "get_daily_challenge"
    /\ response.tool_calls[2].name = "get_user_profile"
    /\ TurnOf(1).content = "{\"error\": \"'NoneType' object has no attribute 'get_daily_challenge'\"}"
    /\ TurnOf(2).content = "{\"error\": \"'QAProcessor' object has no attribute 'default_username'\"}"
    /\ Len(requests) = 2
    /\ dc_calls = << >>
    /\ answer = Some("Two Sum is Easy.")

(***************************************************************************)
(* C29  (under SpecVoice) No text that listen_and_respond hands to         *)
(* tts.speak is empty: after process_question has returned, the text       *)
(* handed over is its answer, or the "couldn't process your question"      *)
(* message when the answer is the empty string.  (test_components, which   *)
(* is not listen_and_respond, hands the answer over as it is.)             *)
(***************************************************************************)
C29_SpokenNeverEmpty ==
    /\ vstate \notin TestStates =>
          \A i \in 1..Len(spoken) : spoken[i] # "" /\ ~IsBlank(spoken[i])
    /\ outcome = "answered" =>
          /\ asked = <<user_question>>
          /\ question = user_question
          /\ answer # None
          /\ spoken = << IF answer = Some("")
                         THEN "I'm sorry, I couldn't process your question. Please try again."
                         ELSE answer[1] >>

\* The reasoning service answered with a blank text, process_question
\* returned "", and the replacement was spoken.
C29_Witness ==
    /\ outcome = "answered"
    /\ user_question = "Two Sum?"
    /\ answer = Some("")
    /\ spoken = <<"I'm sorry, I couldn't process your question. Please try again.">>
    /\ returned = Some(TRUE)

(***************************************************************************)
(* C30  (under SpecVoice) As the claim has it: listen_and_respond returns  *)
(* False only for a transcription that contains quit, exit, stop or bye    *)
(* and on a keyboard interrupt; with an exit word and with an empty        *)
(* transcription process_question is not called; and once the call is      *)
(* over, an empty transcription and any other exception have returned      *)
(* True.  The last part fails: an except clause that is itself cut short   *)
(* returns nothing.                                                        *)
(***************************************************************************)
HasExitWord(text) ==
    \E word \in {"quit", "exit", "stop", "bye"} : Contains(word, Lower(text))

\* A call of listen_and_respond is over.
CallOver == vstate \in {"returned", "ended", "crashed"} /\ outcome # ""

\* What holds as the claim has it and as it is amended.
C30_ExitAndEmpty ==
    /\ returned = Some(FALSE) =>
          \/ outcome = "interrupt"
          \/ outcome = "exit" /\ HasExitWord(user_question)
    /\ outcome = "exit" =>
          /\ HasExitWord(user_question)
          /\ CallOver => returned = Some(FALSE)
          /\ asked = << >>
          /\ pc = "idle" /\ requests = << >> /\ answer = None
    /\ outcome = "empty" =>
          /\ user_question = ""
          /\ CallOver => returned = Some(TRUE)
          /\ asked = << >>
          /\ pc = "idle" /\ requests = << >> /\ answer = None
    /\ (vstate \notin TestStates /\ (asked # << >> \/ pc # "idle")) =>
          (user_question # "" /\ ~HasExitWord(user_question))

C30_AsSpecified ==
    /\ C30_ExitAndEmpty
    /\ (CallOver /\ outcome = "exception") => returned = Some(TRUE)

(***************************************************************************)
(* C30  (under SpecVoice) listen_and_respond returns False only for a      *)
(* transcription that contains quit, exit, stop or bye (in any case, as a  *)
(* substring) and on a keyboard interrupt; with an exit word and with an   *)
(* empty transcription process_question is not called; an empty            *)
(* transcription returns True, and so does any other exception whose       *)
(* except clause runs to its return.  listen_and_respond is left without   *)
(* a return value only from inside one of its two except clauses (Ctrl+C   *)
(* or a failing print there), and the loop is over then.                   *)
(***************************************************************************)
C30_LoopEndsOnExitOrInterrupt ==
    /\ C30_ExitAndEmpty
    /\ (vstate = "returned" /\ outcome = "exception") => returned = Some(TRUE)
    /\ (vstate = "returned" /\ outcome = "answered") => returned = Some(TRUE)
    /\ (vstate = "returned" /\ outcome = "interrupt") => returned = Some(FALSE)
    /\ vstate = "returned" => returned # None
    /\ (CallOver /\ returned = None) =>
          /\ vstate \in {"ended", "crashed"}
          /\ outcome \in {"interrupt", "exception"}

\* "Please STOP" ended the loop without a call of process_question.
C30_Witness ==
    /\ vstate = "ended"
    /\ user_question = "Please STOP"
    /\ outcome = "exit"
    /\ returned = Some(FALSE)
    /\ asked = << >>
    /\ spoken = <<"Goodbye! Thanks for using the voice assistant.">>


=============================================================================
